---- MODULE Spec2Model ----
(***************************************************************************)
(* A model of the scd30-interface driver: the CRC-8 checksum engine        *)
(* (src/src/util.rs), the check of received buffers and the typed buffer   *)
(* constructors (src/src/data/*.rs), the command table                     *)
(* (src/src/command.rs) and the write / write-then-read transactions of    *)
(* Scd30 over an I2C bus (src/src/interface.rs).                           *)
(*                                                                         *)
(* Seven specifications share the module:                                  *)
(*   SpecCrc    compute_crc8 and crc8_matches on every 1- and 2-byte input *)
(*   SpecDeser  the buffer constructors on intact and damaged buffers      *)
(*   Spec       the driver's operations against a bus that may fail        *)
(*   SpecUsed   the public operations one after another on one driver,     *)
(*              with the endings of the earlier ones kept                  *)
(*   SpecValue  the constructors and serializers of the domain values on   *)
(*              every 16-bit number and every checksum-valid Word          *)
(*   SpecFloat  the two float constructors of TemperatureOffset            *)
(*   SpecSetGet a value constructed, set on the sensor and read back       *)
(***************************************************************************)
EXTENDS Integers, Sequences, FiniteSets, TLC

VARIABLES
    crc_in,     \* SpecCrc: the bytes handed to compute_crc8 / crc8_matches
    crc_out,    \* SpecCrc: the checksum handed to crc8_matches
    crc_flip,   \* SpecCrc: 0, or the bit (1..24) flipped before the verification
    crc_ok,     \* SpecCrc: what crc8_matches returned
    crc_pc,     \* SpecCrc: "input" -> "computed" -> "verified"
    d_ty,       \* SpecDeser: the type whose buffer constructor is called
    d_buf,      \* SpecDeser: the received bytes
    d_damage,   \* SpecDeser: what was done to the buffer the device sent
    d_res,      \* SpecDeser: what the buffer constructor returned
    d_pc,       \* SpecDeser: "received" -> "decoded"
    pc,         \* Spec: "idle", or the bus call the operation waits in:
                \*       "write" (i2c.write) or "read" (i2c.read)
    op,         \* Spec: the operation called last and its arguments
    bus,        \* Spec: the bus calls that operation has issued, in order
    result,     \* Spec: what that operation returned
    prior,      \* SpecUsed: how the earlier operations on this driver
                \*           ended; the driver does not hold it, it is kept to
                \*           tell a used driver from a freshly created one
    v_ty,       \* SpecValue: the type of domain value that is constructed
    v_in,       \* SpecValue: where the value comes from and the 16-bit number
                \*            the constructor is given
    v_res,      \* SpecValue: what the constructor returned
    v_ser,      \* SpecValue: the value's bytes followed by their checksum
    v_back,     \* SpecValue: what the buffer constructor made of v_ser
    v_pc,       \* SpecValue: "input" -> "built" -> "serialized" -> "decoded"
    f_in,       \* SpecFloat: the float TemperatureOffset is constructed from
    f_res,      \* SpecFloat: what the f32 and the f64 constructor returned
    f_ser       \* SpecFloat: the bytes of the two values, once serialized

crcVars == <<crc_in, crc_out, crc_flip, crc_ok, crc_pc>>

deserVars == <<d_ty, d_buf, d_damage, d_res, d_pc>>

driverVars == <<pc, op, bus, result, prior>>

valueVars == <<v_ty, v_in, v_res, v_ser, v_back, v_pc>>

floatVars == <<f_in, f_res, f_ser>>

vars == <<crc_in, crc_out, crc_flip, crc_ok, crc_pc,
          d_ty, d_buf, d_damage, d_res, d_pc,
          pc, op, bus, result, prior,
          v_ty, v_in, v_res, v_ser, v_back, v_pc,
          f_in, f_res, f_ser>>

(***************************************************************************)
(* Machine integers.                                                       *)
(***************************************************************************)
Byte == 0..255

\* 2^n, for the bit positions of a byte or a word.
RECURSIVE Pow2(_)
Pow2(n) == IF n = 0 THEN 1 ELSE 2 * Pow2(n - 1)

\* Bitwise exclusive or of two n-bit numbers (Rust's ^ on u8).
RECURSIVE BitXor(_, _, _)
BitXor(a, b, n) ==
    IF n = 0 THEN 0
    ELSE (((a % 2) + (b % 2)) % 2) + 2 * BitXor(a \div 2, b \div 2, n - 1)

\* Bitwise or of two n-bit numbers (Rust's | on u8).
RECURSIVE BitOr(_, _, _)
BitOr(a, b, n) ==
    IF n = 0 THEN 0
    ELSE (IF (a % 2) + (b % 2) > 0 THEN 1 ELSE 0)
         + 2 * BitOr(a \div 2, b \div 2, n - 1)

\* a ^ b on u8, tabulated once.
Xor8Table == [a \in Byte |-> [b \in Byte |-> BitXor(a, b, 8)]]

Xor8(a, b) == Xor8Table[a][b]

\* u16::to_be_bytes: the high byte first.
U16ToBeBytes(v) == <<v \div 256, v % 256>>

\* BigEndian::read_u16 of two bytes.
ReadU16(hi, lo) == 256 * hi + lo

(***************************************************************************)
(* The checksum engine, src/src/util.rs.                                   *)
(***************************************************************************)
INITIAL == 255

XOR == 49

\* `crc << 1` on a u8: the bit shifted out of the top is lost.
Shl1(c) == (c * 2) % 256

\* Crc8Round with the top bit tested after the shift instead of before it.
Crc8Round_TestAfterShift(c) ==
    IF (Shl1(c) \div 128) % 2 # 0 THEN Xor8(Shl1(c), XOR) ELSE Shl1(c)

\* Crc8Round with the polynomial xored in when the top bit is clear.
Crc8Round_BranchesSwapped(c) ==
    IF (c \div 128) % 2 # 0 THEN Shl1(c) ELSE Xor8(Shl1(c), XOR)

\* One pass of the inner loop: test the top bit, shift, and xor the
\* polynomial in when the top bit was set.
Crc8Round(c) ==
    IF (c \div 128) % 2 # 0 THEN Xor8(Shl1(c), XOR) ELSE Shl1(c)

\* `for _ in 0..8`: n passes of the inner loop.
RECURSIVE Crc8Rounds(_, _)
Crc8Rounds(c, n) == IF n = 0 THEN c ELSE Crc8Rounds(Crc8Round(c), n - 1)

\* The eight passes for every value of the accumulator, tabulated once.
Crc8Table == [c \in Byte |-> Crc8Rounds(c, 8)]

\* One pass of the outer loop: `crc ^= byte`, then the eight inner passes.
Crc8Byte(c, byte) == Crc8Table[Xor8(c, byte)]

\* `for byte in data.iter()`, from the i-th byte on.
RECURSIVE Crc8Fold(_, _, _)
Crc8Fold(c, d, i) ==
    IF i > Len(d) THEN c ELSE Crc8Fold(Crc8Byte(c, d[i]), d, i + 1)

compute_crc8(d) == Crc8Fold(INITIAL, d, 1)

\* crc8_matches over the first byte of the data only.
crc8_matches_FirstByteOnly(d, c) == compute_crc8(SubSeq(d, 1, 1)) = c

crc8_matches(d, c) == compute_crc8(d) = c

(***************************************************************************)
(* Results and errors, src/src/error.rs.  A Result is a record: Ok(v) has  *)
(* ok = TRUE and the value, Err(e) has ok = FALSE and the error.           *)
(***************************************************************************)
Ok(v) == [ok |-> TRUE, val |-> v]

Err(e) == [ok |-> FALSE, err |-> e]

\* Ok(()) of a function that returns no value.
OkUnit == [ok |-> TRUE]

CrcFailed == [kind |-> "CrcFailed"]

ReceivedBufferWrongSize == [kind |-> "ReceivedBufferWrongSize"]

UnexpectedValueReceived(parameter, expected, actual) ==
    [kind |-> "UnexpectedValueReceived", parameter |-> parameter,
     expected |-> expected, actual |-> actual]

ValueOutOfRange(parameter, min, max, unit) ==
    [kind |-> "ValueOutOfRange", parameter |-> parameter,
     min |-> min, max |-> max, unit |-> unit]

UseDefaultPressure == [kind |-> "UseDefaultPressure"]

\* Scd30Error<I2cErr>: a DataError or an error of the bus, wrapped by `?`
\* through #[from], or SentDataToBig.
DataError(e) == [variant |-> "DataError", inner |-> e]

I2cError(e) == [variant |-> "I2cError", kind |-> e]

SentDataToBig == [variant |-> "SentDataToBig"]

\* Option<T>.
None == [some |-> FALSE, val |-> <<>>]

Some(x) == [some |-> TRUE, val |-> x]

\* An index past the end of a slice: the thread panics, no Result is returned.
Panicked == [ok |-> FALSE, err |-> [kind |-> "panic"]]

(***************************************************************************)
(* check_deserialization, src/src/util.rs.                                 *)
(***************************************************************************)
Min(a, b) == IF a < b THEN a ELSE b

\* `data.chunks(3).any(|chunk| !crc8_matches(&chunk[..2], chunk[2]))` from
\* the chunk that starts at byte i on: the chunks are visited in order and
\* the visit stops at the first one that fails; a last chunk of fewer than 3
\* bytes has no chunk[2].
\* AnyChunkFails with `all` in the place of `any`: the buffer is refused only
\* when every Word fails.
AnyChunkFails_All(d, i) ==
    IF \A w \in 1..(Len(d) \div 3) :
          ~crc8_matches(SubSeq(d, 3 * w - 2, 3 * w - 1), d[3 * w])
    THEN Err(CrcFailed)
    ELSE OkUnit

RECURSIVE AnyChunkFails(_, _)
AnyChunkFails(d, i) ==
    IF i > Len(d) THEN OkUnit
    ELSE LET chunk == SubSeq(d, i, Min(i + 2, Len(d)))
         IN  IF Len(chunk) < 3 THEN Panicked
             ELSE IF ~crc8_matches(SubSeq(chunk, 1, 2), chunk[3])
                  THEN Err(CrcFailed)
                  ELSE AnyChunkFails(d, i + 3)

\* check_deserialization with the checksums verified before the length.
check_deserialization_CrcFirst(d, expected_len) ==
    IF AnyChunkFails(d, 1) # OkUnit THEN AnyChunkFails(d, 1)
    ELSE IF Len(d) # expected_len THEN Err(ReceivedBufferWrongSize)
    ELSE OkUnit

\* check_deserialization that verifies the first Word only.
check_deserialization_FirstWordOnly(d, expected_len) ==
    IF Len(d) # expected_len THEN Err(ReceivedBufferWrongSize)
    ELSE AnyChunkFails(SubSeq(d, 1, Min(3, Len(d))), 1)

check_deserialization(d, expected_len) ==
    IF Len(d) # expected_len THEN Err(ReceivedBufferWrongSize)
    ELSE AnyChunkFails(d, 1)

(***************************************************************************)
(* The constructors from a received buffer, src/src/data/*.rs.  Indices    *)
(* are 1-based here: data[0] of the source is d[1].  A float is kept as    *)
(* its 32-bit pattern: f32::from_bits keeps every bit.                     *)
(***************************************************************************)
\* BigEndian::read_u32 of four bytes.
ReadU32(b) == ((b[1] * 256 + b[2]) * 256 + b[3]) * 256 + b[4]

\* The buffer constructor of Measurement reading each float from four
\* consecutive bytes of its two Words, the first checksum among them.
Measurement_try_from_Contiguous(d) ==
    LET chk == check_deserialization(d, 18)
    IN  IF chk # OkUnit THEN chk
        ELSE Ok([co2_concentration |-> ReadU32(<<d[1], d[2], d[3], d[4]>>),
                 temperature |-> ReadU32(<<d[7], d[8], d[9], d[10]>>),
                 humidity |-> ReadU32(<<d[13], d[14], d[15], d[16]>>)])

Measurement_try_from(d) ==
    LET chk == check_deserialization(d, 18)
    IN  IF chk # OkUnit THEN chk
        ELSE Ok([co2_concentration |-> ReadU32(<<d[1], d[2], d[4], d[5]>>),
                 temperature |-> ReadU32(<<d[7], d[8], d[10], d[11]>>),
                 humidity |-> ReadU32(<<d[13], d[14], d[16], d[17]>>)])

\* The buffer constructor of MeasurementInterval with the range of the
\* number constructor applied to what was received.
MeasurementInterval_try_from_Revalidated(d) ==
    LET chk == check_deserialization(d, 3)
    IN  IF chk # OkUnit THEN chk
        ELSE IF ~(ReadU16(d[1], d[2]) \in 2..1800)
        THEN Err(ValueOutOfRange("Measurement interval", 2, 1800, "s"))
        ELSE Ok([MeasurementInterval |-> ReadU16(d[1], d[2])])

MeasurementInterval_try_from(d) ==
    LET chk == check_deserialization(d, 3)
    IN  IF chk # OkUnit THEN chk
        ELSE Ok([MeasurementInterval |-> ReadU16(d[1], d[2])])

ForcedRecalibrationValue_try_from(d) ==
    LET chk == check_deserialization(d, 3)
    IN  IF chk # OkUnit THEN chk
        ELSE Ok([ForcedRecalibrationValue |-> ReadU16(d[1], d[2])])

TemperatureOffset_try_from(d) ==
    LET chk == check_deserialization(d, 3)
    IN  IF chk # OkUnit THEN chk
        ELSE Ok([TemperatureOffset |-> ReadU16(d[1], d[2])])

AltitudeCompensation_try_from(d) ==
    LET chk == check_deserialization(d, 3)
    IN  IF chk # OkUnit THEN chk
        ELSE Ok([AltitudeCompensation |-> ReadU16(d[1], d[2])])

FirmwareVersion_try_from(d) ==
    LET chk == check_deserialization(d, 3)
    IN  IF chk # OkUnit THEN chk
        ELSE Ok([major |-> d[1], minor |-> d[2]])

\* The buffer constructor of AutomaticSelfCalibration matching on the
\* content first and checking the buffer only for a value it knows.
AutomaticSelfCalibration_try_from_ContentFirst(d) ==
    IF Len(d) >= 2 /\ d[2] \notin {0, 1}
    THEN Err(UnexpectedValueReceived("Automatic self-calibration",
                                     "0 or 1", d[2]))
    ELSE LET chk == check_deserialization(d, 3)
         IN  IF chk # OkUnit THEN chk
             ELSE IF d[2] = 1 THEN Ok([AutomaticSelfCalibration |-> "Active"])
             ELSE Ok([AutomaticSelfCalibration |-> "Inactive"])

AutomaticSelfCalibration_try_from(d) ==
    LET chk == check_deserialization(d, 3)
    IN  IF chk # OkUnit THEN chk
        ELSE IF d[2] = 1 THEN Ok([AutomaticSelfCalibration |-> "Active"])
        ELSE IF d[2] = 0 THEN Ok([AutomaticSelfCalibration |-> "Inactive"])
        ELSE Err(UnexpectedValueReceived("Automatic self-calibration",
                                         "0 or 1", d[2]))

\* The buffer constructor of DataStatus with every value but 0 taken as
\* Ready.
DataStatus_try_from_NonZeroReady(d) ==
    LET chk == check_deserialization(d, 3)
    IN  IF chk # OkUnit THEN chk
        ELSE IF d[2] = 0 THEN Ok([DataStatus |-> "NotReady"])
        ELSE Ok([DataStatus |-> "Ready"])

DataStatus_try_from(d) ==
    LET chk == check_deserialization(d, 3)
    IN  IF chk # OkUnit THEN chk
        ELSE IF d[2] = 0 THEN Ok([DataStatus |-> "NotReady"])
        ELSE IF d[2] = 1 THEN Ok([DataStatus |-> "Ready"])
        ELSE Err(UnexpectedValueReceived("Data ready status", "0 or 1", d[2]))

\* The types that have a constructor from a buffer.
BufferTypes ==
    {"Measurement", "MeasurementInterval", "ForcedRecalibrationValue",
     "TemperatureOffset", "AltitudeCompensation", "FirmwareVersion",
     "AutomaticSelfCalibration", "DataStatus"}

\* T::try_from(&data[..]) for the type named ty.
TryFromBuffer(ty, d) ==
    CASE ty = "Measurement" -> Measurement_try_from(d)
      [] ty = "MeasurementInterval" -> MeasurementInterval_try_from(d)
      [] ty = "ForcedRecalibrationValue" -> ForcedRecalibrationValue_try_from(d)
      [] ty = "TemperatureOffset" -> TemperatureOffset_try_from(d)
      [] ty = "AltitudeCompensation" -> AltitudeCompensation_try_from(d)
      [] ty = "FirmwareVersion" -> FirmwareVersion_try_from(d)
      [] ty = "AutomaticSelfCalibration" -> AutomaticSelfCalibration_try_from(d)
      [] ty = "DataStatus" -> DataStatus_try_from(d)

\* The length each constructor passes to check_deserialization.
ExpectedLen(ty) == IF ty = "Measurement" THEN 18 ELSE 3

(***************************************************************************)
(* The constructors from a raw number, src/src/data/*.rs.  A domain value  *)
(* is a record with one field, named after its type, holding the number.   *)
(***************************************************************************)
U16 == 0..65535

MIN_AMBIENT_PRESSURE == 700

MAX_AMBIENT_PRESSURE == 1400

\* AmbientPressure::try_from without the arm for 0: 0 is out of range like
\* every other number below 700.
AmbientPressure_try_from_NoZeroArm(pressure) ==
    IF ~(pressure \in MIN_AMBIENT_PRESSURE..MAX_AMBIENT_PRESSURE)
    THEN Err(ValueOutOfRange("Ambient pressure compensation",
                             MIN_AMBIENT_PRESSURE, MAX_AMBIENT_PRESSURE, "mBar"))
    ELSE Ok([AmbientPressure |-> pressure])

\* impl TryFrom<u16> for AmbientPressure: the arms of the match in order.
AmbientPressure_try_from(pressure) ==
    IF pressure = 0 THEN Err(UseDefaultPressure)
    ELSE IF ~(pressure \in MIN_AMBIENT_PRESSURE..MAX_AMBIENT_PRESSURE)
    THEN Err(ValueOutOfRange("Ambient pressure compensation",
                             MIN_AMBIENT_PRESSURE, MAX_AMBIENT_PRESSURE, "mBar"))
    ELSE Ok([AmbientPressure |-> pressure])

MIN_MEASUREMENT_INTERVAL == 2

MAX_MEASUREMENT_INTERVAL == 1800

\* MeasurementInterval::try_from(u16) with the range MIN..MAX in the place of
\* MIN..=MAX: 1800 is refused.
MeasurementInterval_try_from_u16_HalfOpen(interval) ==
    IF ~(interval \in MIN_MEASUREMENT_INTERVAL..(MAX_MEASUREMENT_INTERVAL - 1))
    THEN Err(ValueOutOfRange("Measurement interval", MIN_MEASUREMENT_INTERVAL,
                             MAX_MEASUREMENT_INTERVAL, "s"))
    ELSE Ok([MeasurementInterval |-> interval])

\* impl TryFrom<u16> for MeasurementInterval.
MeasurementInterval_try_from_u16(interval) ==
    IF ~(interval \in MIN_MEASUREMENT_INTERVAL..MAX_MEASUREMENT_INTERVAL)
    THEN Err(ValueOutOfRange("Measurement interval", MIN_MEASUREMENT_INTERVAL,
                             MAX_MEASUREMENT_INTERVAL, "s"))
    ELSE Ok([MeasurementInterval |-> interval])

MIN_FRC == 400

MAX_FRC == 2000

\* ForcedRecalibrationValue::try_from(u16) without the range check.
ForcedRecalibrationValue_try_from_u16_Unchecked(frc) ==
    Ok([ForcedRecalibrationValue |-> frc])

\* impl TryFrom<u16> for ForcedRecalibrationValue.
ForcedRecalibrationValue_try_from_u16(frc) ==
    IF ~(frc \in MIN_FRC..MAX_FRC)
    THEN Err(ValueOutOfRange("Forced recalibration value", MIN_FRC, MAX_FRC,
                             "ppm"))
    ELSE Ok([ForcedRecalibrationValue |-> frc])

\* impl From<u16> for AltitudeCompensation: every number is taken.
AltitudeCompensation_from(altitude) == [AltitudeCompensation |-> altitude]

\* The types that have a constructor from a u16.
NumberTypes ==
    {"AmbientPressure", "MeasurementInterval", "ForcedRecalibrationValue",
     "AltitudeCompensation"}

\* T::try_from(n), or Ok(T::from(n)), for the type named ty.
TryFromU16(ty, n) ==
    CASE ty = "AmbientPressure" -> AmbientPressure_try_from(n)
      [] ty = "MeasurementInterval" -> MeasurementInterval_try_from_u16(n)
      [] ty = "ForcedRecalibrationValue" ->
             ForcedRecalibrationValue_try_from_u16(n)
      [] ty = "AltitudeCompensation" -> Ok(AltitudeCompensation_from(n))

(***************************************************************************)
(* TemperatureOffset from a float, src/src/data/temperature_offset.rs.     *)
(* A float is not-a-number, an infinity, or the number (-1)^neg * m * 2^e; *)
(* as f32 it has m = 0, or 2^23 <= m < 2^24 (subnormal numbers are left    *)
(* out).  The same record stands for the f64 of the same value: every f32  *)
(* is an f64, and an f64 holds 53 bits of m.                               *)
(***************************************************************************)
Finite(neg, m, e) == [cls |-> "finite", neg |-> neg, m |-> m, e |-> e]

NaN == [cls |-> "nan", neg |-> FALSE, m |-> 0, e |-> 0]

Infinity(neg) == [cls |-> "inf", neg |-> neg, m |-> 0, e |-> 0]

\* a <= b of IEEE 754: false when either is not-a-number; -0.0 = 0.0.
FloatLe(a, b) ==
    LET zero(x) == x.cls = "finite" /\ x.m = 0
        \* |x| <= |y| for two numbers or infinities
        magnitudeLe(x, y) ==
            IF y.cls = "inf" THEN TRUE
            ELSE IF x.cls = "inf" THEN FALSE
            ELSE IF x.m = 0 THEN TRUE
            ELSE IF y.m = 0 THEN FALSE
            ELSE x.e < y.e \/ (x.e = y.e /\ x.m <= y.m)
    IN  /\ a.cls # "nan"
        /\ b.cls # "nan"
        /\ IF zero(a) /\ zero(b) THEN TRUE
           ELSE IF a.neg # b.neg THEN a.neg
           ELSE IF a.neg THEN magnitudeLe(b, a)
           ELSE magnitudeLe(a, b)

\* a > b of IEEE 754: false when either is not-a-number.
FloatGt(a, b) == a.cls # "nan" /\ b.cls # "nan" /\ ~FloatLe(a, b)

\* `offset * 100.0` with offset: f32: the f32 nearest to the product
\* n * 2^e (2^23 <= n < 2^31), ties to the even m; beyond the largest f32
\* it is an infinity.
Mul100_f32(x) ==
    IF x.cls # "finite" \/ x.m = 0 THEN x
    ELSE LET n == x.m * 100
             k == CHOOSE i \in 0..7 :
                      Pow2(23 + i) <= n /\ (i = 7 \/ n < Pow2(24 + i))
             q == n \div Pow2(k)
             r == n % Pow2(k)
             up == 2 * r > Pow2(k) \/ (2 * r = Pow2(k) /\ q % 2 = 1)
             m == IF up THEN q + 1 ELSE q
             fm == IF m = Pow2(24) THEN Pow2(23) ELSE m
             fe == IF m = Pow2(24) THEN x.e + k + 1 ELSE x.e + k
         IN  IF fe > 104 THEN Infinity(x.neg) ELSE Finite(x.neg, fm, fe)

\* `offset * 100.0` with offset: f64 holding the value of an f32: the
\* product has at most 31 bits and is exact.
Mul100_f64(x) ==
    IF x.cls # "finite" \/ x.m = 0 THEN x
    ELSE Finite(x.neg, x.m * 100, x.e)

\* `x as u16`: towards zero, saturating at the ends of u16, NaN to 0.
AsU16(x) ==
    IF x.cls = "nan" \/ x.neg THEN 0
    ELSE IF x.cls = "inf" THEN 65535
    ELSE IF x.m = 0 THEN 0
    ELSE IF x.e >= 0
         THEN IF x.e >= 16 \/ x.m >= 65536 THEN 65535
              ELSE Min(x.m * Pow2(x.e), 65535)
    ELSE IF 0 - x.e >= 31 THEN 0
    ELSE Min(x.m \div Pow2(0 - x.e), 65535)

\* 0.0
MIN_TEMPERATURE_OFFSET == Finite(FALSE, 0, 0)

\* 0.1 * u16::MAX as f32: 0.1f32 is 13421773 * 2^-27, the product with
\* 65535 is 13107.0002 * 2^-1 and rounds to 13107 * 2^-1 = 6553.5.
MAX_TEMPERATURE_OFFSET == Finite(FALSE, 13107 * 1024, 0 - 11)

\* The error of both float constructors.
TemperatureOffsetOutOfRange ==
    ValueOutOfRange("Temperature offset", AsU16(MIN_TEMPERATURE_OFFSET),
                    AsU16(Mul100_f32(MAX_TEMPERATURE_OFFSET)), "°C")

TemperatureOffset_try_from_f32(offset) ==
    IF ~(FloatLe(MIN_TEMPERATURE_OFFSET, offset)
             /\ FloatLe(offset, MAX_TEMPERATURE_OFFSET))
    THEN Err(TemperatureOffsetOutOfRange)
    ELSE Ok([TemperatureOffset |-> AsU16(Mul100_f32(offset))])

TemperatureOffset_try_from_f64(offset) ==
    IF FloatGt(MIN_TEMPERATURE_OFFSET, offset)
           \/ FloatGt(offset, MAX_TEMPERATURE_OFFSET)
    THEN Err(TemperatureOffsetOutOfRange)
    ELSE Ok([TemperatureOffset |-> AsU16(Mul100_f64(offset))])

(***************************************************************************)
(* The command table, src/src/command.rs.                                  *)
(***************************************************************************)
Commands ==
    {"TriggerContinuousMeasurement", "StopContinuousMeasurement",
     "SetMeasurementInterval", "GetDataReady", "ReadMeasurement",
     "ActivateAutomaticSelfCalibration", "ForcedRecalibrationValue",
     "SetTemperatureOffset", "SetAltitudeCompensation",
     "ReadFirmwareVersion", "SoftReset"}

\* The discriminants with SoftReset given the opcode of ReadFirmwareVersion.
CommandOpcode_SharedOpcode(command) ==
    CASE command = "TriggerContinuousMeasurement" -> 16
      [] command = "StopContinuousMeasurement" -> 260
      [] command = "SetMeasurementInterval" -> 17920
      [] command = "GetDataReady" -> 514
      [] command = "ReadMeasurement" -> 768
      [] command = "ActivateAutomaticSelfCalibration" -> 21254
      [] command = "ForcedRecalibrationValue" -> 20996
      [] command = "SetTemperatureOffset" -> 21507
      [] command = "SetAltitudeCompensation" -> 20738
      [] command = "ReadFirmwareVersion" -> 53504
      [] command = "SoftReset" -> 53504

\* `*self as u16`: the discriminant of the variant.
CommandOpcode(command) ==
    CASE command = "TriggerContinuousMeasurement" -> 16          \* 0x0010
      [] command = "StopContinuousMeasurement" -> 260            \* 0x0104
      [] command = "SetMeasurementInterval" -> 17920             \* 0x4600
      [] command = "GetDataReady" -> 514                         \* 0x0202
      [] command = "ReadMeasurement" -> 768                      \* 0x0300
      [] command = "ActivateAutomaticSelfCalibration" -> 21254   \* 0x5306
      [] command = "ForcedRecalibrationValue" -> 20996           \* 0x5204
      [] command = "SetTemperatureOffset" -> 21507               \* 0x5403
      [] command = "SetAltitudeCompensation" -> 20738            \* 0x5102
      [] command = "ReadFirmwareVersion" -> 53504                \* 0xD100
      [] command = "SoftReset" -> 54020                          \* 0xD304

Command_to_be_bytes(command) == U16ToBeBytes(CommandOpcode(command))

(***************************************************************************)
(* The values sent to the sensor and their serializers, src/src/data/*.rs. *)
(* A value of a newtype over u16 is modelled by the number it holds.       *)
(***************************************************************************)
\* The discriminants of AutomaticSelfCalibration the other way round.
AutomaticSelfCalibration_as_u16_Swapped(setting) ==
    IF setting = "Active" THEN 0 ELSE 1

\* `*self as u16` of AutomaticSelfCalibration: Active = 1, Inactive = 0.
AutomaticSelfCalibration_as_u16(setting) == IF setting = "Active" THEN 1 ELSE 0

AutomaticSelfCalibration_to_be_bytes(setting) ==
    U16ToBeBytes(AutomaticSelfCalibration_as_u16(setting))

\* AmbientPressureCompensation: DefaultPressure, or CompensationPressure(p),
\* modelled as pressure 0 and pressure p.
DefaultPressure == [variant |-> "DefaultPressure", pressure |-> 0]

CompensationPressure(p) == [variant |-> "CompensationPressure", pressure |-> p]

\* AmbientPressureCompensation::to_be_bytes with DefaultPressure sent as the
\* 1013 mBar it stands for.
AmbientPressureCompensation_to_be_bytes_DefaultAsNumber(pres) ==
    IF pres.variant = "DefaultPressure" THEN U16ToBeBytes(1013)
    ELSE U16ToBeBytes(pres.pressure)

AmbientPressureCompensation_to_be_bytes(pres) ==
    IF pres.variant = "DefaultPressure" THEN <<0, 0>>
    ELSE U16ToBeBytes(pres.pressure)

\* to_be_bytes of the newtypes over u16: self.0.to_be_bytes().
AmbientPressure_to_be_bytes(v) == U16ToBeBytes(v.AmbientPressure)

MeasurementInterval_to_be_bytes(v) == U16ToBeBytes(v.MeasurementInterval)

\* ForcedRecalibrationValue::to_be_bytes with the low byte first.
ForcedRecalibrationValue_to_be_bytes_LowByteFirst(v) ==
    <<v.ForcedRecalibrationValue % 256, v.ForcedRecalibrationValue \div 256>>

ForcedRecalibrationValue_to_be_bytes(v) ==
    U16ToBeBytes(v.ForcedRecalibrationValue)

TemperatureOffset_to_be_bytes(v) == U16ToBeBytes(v.TemperatureOffset)

AltitudeCompensation_to_be_bytes(v) == U16ToBeBytes(v.AltitudeCompensation)

\* The types that have to_be_bytes.
SerializableTypes ==
    {"AmbientPressure", "MeasurementInterval", "ForcedRecalibrationValue",
     "TemperatureOffset", "AltitudeCompensation", "AutomaticSelfCalibration"}

\* v.to_be_bytes() for a value v of the type named ty.
ToBeBytes(ty, v) ==
    CASE ty = "AmbientPressure" -> AmbientPressure_to_be_bytes(v)
      [] ty = "MeasurementInterval" -> MeasurementInterval_to_be_bytes(v)
      [] ty = "ForcedRecalibrationValue" ->
             ForcedRecalibrationValue_to_be_bytes(v)
      [] ty = "TemperatureOffset" -> TemperatureOffset_to_be_bytes(v)
      [] ty = "AltitudeCompensation" -> AltitudeCompensation_to_be_bytes(v)
      [] ty = "AutomaticSelfCalibration" ->
             AutomaticSelfCalibration_to_be_bytes(v.AutomaticSelfCalibration)

(***************************************************************************)
(* Scd30, src/src/interface.rs.  The driver owns the bus and nothing else. *)
(* An operation runs up to its bus call and waits there (`.await` in the   *)
(* asynchronous variant, the blocking call in the other); the bus answers  *)
(* with Ok or with an error and the operation runs on.                     *)
(***************************************************************************)
\* ADDRESS as the 8-bit address byte: the 7-bit address moved up by one bit,
\* the direction flag below it.
ADDRESS_Shifted == 97 * 2

ADDRESS == 97

WRITE_FLAG == 0

READ_FLAG == 1

\* One call of the bus: its direction, the address byte, the bytes written
\* or the buffer read into, and what the bus answered ("pending" until then).
BusCall(call, address, bytes) ==
    [call |-> call, address |-> address, bytes |-> bytes, outcome |-> "pending"]

\* Scd30::write with the argument refused only when it is longer than 2
\* bytes: a shorter one is indexed past its end.
Scd30_write_frame_TooBigOnly(command, data) ==
    LET cb == Command_to_be_bytes(command)
    IN  IF data.some
        THEN IF Len(data.val) > 2 THEN Err(SentDataToBig)
             ELSE IF Len(data.val) < 2 THEN Panicked
             ELSE Ok(<<cb[1], cb[2], data.val[1], data.val[2],
                       compute_crc8(data.val)>>)
        ELSE Ok(<<cb[1], cb[2]>>)

\* Scd30::write with the checksum taken over the opcode and the argument.
Scd30_write_frame_CrcOverFrame(command, data) ==
    LET cb == Command_to_be_bytes(command)
    IN  IF data.some
        THEN IF Len(data.val) # 2 THEN Err(SentDataToBig)
             ELSE Ok(<<cb[1], cb[2], data.val[1], data.val[2],
                       compute_crc8(cb \o data.val)>>)
        ELSE Ok(<<cb[1], cb[2]>>)

\* Scd30::write up to its bus call: Err(SentDataToBig), or the frame
\* &sent[..len] it hands to i2c.write.
Scd30_write_frame(command, data) ==
    LET cb == Command_to_be_bytes(command)
        sent == <<cb[1], cb[2], 0, 0, 0>>
    IN  IF data.some
        THEN IF Len(data.val) # 2 THEN Err(SentDataToBig)
             ELSE Ok(SubSeq([sent EXCEPT ![3] = data.val[1],
                                         ![4] = data.val[2],
                                         ![5] = compute_crc8(data.val)], 1, 5))
        ELSE Ok(SubSeq(sent, 1, 2))

\* The operations that read: the const parameter of `self.read::<N>` each
\* passes, and the type whose constructor receives the buffer.
ReadOps ==
    {"get_measurement_interval", "is_data_ready", "read_measurement",
     "get_automatic_self_calibration", "get_forced_recalibration",
     "get_temperature_offset", "get_altitude_compensation",
     "read_firmware_version"}

\* DATA_SIZE with 3 for every operation.
DATA_SIZE_AlwaysThree(name) == 3

DATA_SIZE(name) == IF name = "read_measurement" THEN 18 ELSE 3

ResultType(name) ==
    CASE name = "get_measurement_interval" -> "MeasurementInterval"
      [] name = "is_data_ready" -> "DataStatus"
      [] name = "read_measurement" -> "Measurement"
      [] name = "get_automatic_self_calibration" -> "AutomaticSelfCalibration"
      [] name = "get_forced_recalibration" -> "ForcedRecalibrationValue"
      [] name = "get_temperature_offset" -> "TemperatureOffset"
      [] name = "get_altitude_compensation" -> "AltitudeCompensation"
      [] name = "read_firmware_version" -> "FirmwareVersion"

\* `let mut data = [0; DATA_SIZE]`.
ZeroBuffer(n) == [i \in 1..n |-> 0]

\* `Ok(T::try_from(&receive[..])?)`: the DataError of the constructor is
\* wrapped into Scd30Error::DataError.
WrapDataError(r) == IF r.ok THEN r ELSE Err(DataError(r.err))

(***************************************************************************)
(* SpecCrc: the checksum engine on every input of one or two bytes.  The   *)
(* checksum of the input is computed; then crc8_matches is asked about the *)
(* input and its checksum, either intact or with one single bit flipped    *)
(* (bits 1..8*Len of the input, then the 8 bits of the checksum).          *)
(***************************************************************************)
\* The number v with bit b (0 = least significant) inverted.
FlipBit(v, b) == IF (v \div Pow2(b)) % 2 = 1 THEN v - Pow2(b) ELSE v + Pow2(b)

\* The bytes d with the k-th of their 8*Len(d) bits inverted.
FlipDataBit(d, k) ==
    [i \in 1..Len(d) |->
        IF i = ((k - 1) \div 8) + 1 THEN FlipBit(d[i], (k - 1) % 8) ELSE d[i]]

CrcInputs == [1..1 -> Byte] \cup [1..2 -> Byte]

\* The part of the state a specification does not use stays as it is here.
CrcIdle ==
    /\ crc_in = <<>>
    /\ crc_out = 0
    /\ crc_flip = 0
    /\ crc_ok = FALSE
    /\ crc_pc = "off"

NoDamage == [data |-> {}, crc |-> {}, resized |-> FALSE]

NoResult == [ok |-> FALSE, err |-> [kind |-> "none"]]

DeserIdle ==
    /\ d_ty = "none"
    /\ d_buf = <<>>
    /\ d_damage = NoDamage
    /\ d_res = NoResult
    /\ d_pc = "off"

\* No operation has been called on the driver.
NoOp == [name |-> "none", command |-> "none", value |-> -1, data |-> None]

\* The history of the driver's operations is not kept.
Unobserved == {"unobserved"}

DriverIdle ==
    /\ pc = "idle"
    /\ op = NoOp
    /\ bus = <<>>
    /\ result = NoResult
    /\ prior = Unobserved

\* No domain value is being constructed.
NoInput == [from |-> "none", n |-> 0]

ValueIdle ==
    /\ v_ty = "none"
    /\ v_in = NoInput
    /\ v_res = NoResult
    /\ v_ser = <<>>
    /\ v_back = NoResult
    /\ v_pc = "off"

\* No TemperatureOffset is being constructed from a float.
FloatIdle ==
    /\ f_in = [cls |-> "none", neg |-> FALSE, m |-> 0, e |-> 0]
    /\ f_res = NoResult
    /\ f_ser = <<>>

InitCrc ==
    /\ crc_in \in CrcInputs
    /\ crc_out = 0
    /\ crc_flip = 0
    /\ crc_ok = FALSE
    /\ crc_pc = "input"
    /\ DeserIdle
    /\ DriverIdle
    /\ ValueIdle
    /\ FloatIdle

ComputeCrc ==
    /\ crc_pc = "input"
    /\ crc_out' = compute_crc8(crc_in)
    /\ crc_pc' = "computed"
    /\ UNCHANGED <<crc_in, crc_flip, crc_ok>>
    /\ UNCHANGED <<deserVars, driverVars, valueVars, floatVars>>

VerifyIntact ==
    /\ crc_pc = "computed"
    /\ crc_ok' = crc8_matches(crc_in, crc_out)
    /\ crc_pc' = "verified"
    /\ UNCHANGED <<crc_in, crc_out, crc_flip>>
    /\ UNCHANGED <<deserVars, driverVars, valueVars, floatVars>>

VerifyFlippedData ==
    /\ crc_pc = "computed"
    /\ \E k \in 1..(8 * Len(crc_in)) :
        /\ crc_flip' = k
        /\ crc_in' = FlipDataBit(crc_in, k)
        /\ crc_ok' = crc8_matches(crc_in', crc_out)
    /\ crc_pc' = "verified"
    /\ UNCHANGED crc_out
    /\ UNCHANGED <<deserVars, driverVars, valueVars, floatVars>>

VerifyFlippedCrc ==
    /\ crc_pc = "computed"
    /\ \E k \in 1..8 :
        /\ crc_flip' = 8 * Len(crc_in) + k
        /\ crc_out' = FlipBit(crc_out, k - 1)
        /\ crc_ok' = crc8_matches(crc_in, crc_out')
    /\ crc_pc' = "verified"
    /\ UNCHANGED crc_in
    /\ UNCHANGED <<deserVars, driverVars, valueVars, floatVars>>

NextCrc == ComputeCrc \/ VerifyIntact \/ VerifyFlippedData \/ VerifyFlippedCrc

SpecCrc == InitCrc /\ [][NextCrc]_vars

(***************************************************************************)
(* SpecDeser: the buffer constructors on what arrives.  The device sends a *)
(* checksum-valid buffer of the length the type expects; on the way it may *)
(* be damaged: one data byte replaced by any other value, the checksum     *)
(* bytes of up to MaxDamage Words replaced by a wrong value, the buffer cut *)
(* short or extended by up to MaxExtra bytes.  Then the constructor runs.  *)
(***************************************************************************)
MaxDamage == 2

MaxExtra == 3

\* A Word as the device sends it: two data bytes and their checksum.
Word(v) == U16ToBeBytes(v) \o <<compute_crc8(U16ToBeBytes(v))>>

\* A 32-bit float as the device sends it: the high Word, then the low Word.
FloatWords(bits) == Word(bits \div 65536) \o Word(bits % 65536)

\* The 16-bit values the device answers with: 0, 1, 2, 0x0100, 0x0101, the
\* values of the driver's tests (450, 500, 0x0342, 1000), the ends of the
\* ranges (1800, 2000), 0xBEEF and 0xFFFF.
WordSamples ==
    {0, 1, 2, 256, 257, 450, 500, 834, 1000, 1800, 2000, 48879, 65535}

\* The float patterns of the sample measurement: 0x43DB8C2E, 0x41D9E7FF and
\* 0x42433A1B.
FloatSamples == {1138461742, 1104799743, 1111702043}

DeviceBuffers(ty) ==
    IF ty = "Measurement"
    THEN {FloatWords(c) \o FloatWords(t) \o FloatWords(h) :
             c \in FloatSamples, t \in FloatSamples, h \in FloatSamples}
    ELSE {Word(v) : v \in WordSamples}

\* Wrong values for a checksum byte whose right value is c.
WrongChecksums(c) == {Xor8(c, 255), (c + 1) % 256}

\* The bytes appended to a buffer that arrives too long: whole valid Words.
Filler(n) == [i \in 1..n |-> Word(834)[((i - 1) % 3) + 1]]

InitDeser ==
    /\ d_ty \in BufferTypes
    /\ d_buf \in DeviceBuffers(d_ty)
    /\ d_damage = NoDamage
    /\ d_res = NoResult
    /\ d_pc = "received"
    /\ CrcIdle
    /\ DriverIdle
    /\ ValueIdle
    /\ FloatIdle

AlterDataByte ==
    /\ d_pc = "received"
    /\ d_damage = NoDamage
    /\ \E pos \in {p \in 1..Len(d_buf) : p % 3 # 0} :
        \E v \in Byte \ {d_buf[pos]} :
            /\ d_buf' = [d_buf EXCEPT ![pos] = v]
            /\ d_damage' = [d_damage EXCEPT !.data = {pos}]
    /\ UNCHANGED <<d_ty, d_res, d_pc>>
    /\ UNCHANGED <<crcVars, driverVars, valueVars, floatVars>>

AlterChecksum ==
    /\ d_pc = "received"
    /\ d_damage.data = {}
    /\ ~d_damage.resized
    /\ Cardinality(d_damage.crc) < MaxDamage
    /\ \E w \in (1..(Len(d_buf) \div 3)) \ d_damage.crc :
        \E v \in WrongChecksums(d_buf[3 * w]) :
            /\ d_buf' = [d_buf EXCEPT ![3 * w] = v]
            /\ d_damage' = [d_damage EXCEPT !.crc = @ \cup {w}]
    /\ UNCHANGED <<d_ty, d_res, d_pc>>
    /\ UNCHANGED <<crcVars, driverVars, valueVars, floatVars>>

Resize ==
    /\ d_pc = "received"
    /\ d_damage.data = {}
    /\ ~d_damage.resized
    /\ \E n \in (0..(Len(d_buf) + MaxExtra)) \ {Len(d_buf)} :
        d_buf' = IF n < Len(d_buf)
                 THEN SubSeq(d_buf, 1, n)
                 ELSE d_buf \o Filler(n - Len(d_buf))
    /\ d_damage' = [d_damage EXCEPT !.resized = TRUE]
    /\ UNCHANGED <<d_ty, d_res, d_pc>>
    /\ UNCHANGED <<crcVars, driverVars, valueVars, floatVars>>

Decode ==
    /\ d_pc = "received"
    /\ d_res' = TryFromBuffer(d_ty, d_buf)
    /\ d_pc' = "decoded"
    /\ UNCHANGED <<d_ty, d_buf, d_damage>>
    /\ UNCHANGED <<crcVars, driverVars, valueVars, floatVars>>

NextDeser == AlterDataByte \/ AlterChecksum \/ Resize \/ Decode

SpecDeser == InitDeser /\ [][NextDeser]_vars

(***************************************************************************)
(* The claims about received buffers, checked under SpecDeser.             *)
(***************************************************************************)
\* The w-th Word of d carries the checksum of its two data bytes.
WordVerifies(d, w) ==
    d[3 * w] = compute_crc8(<<d[3 * w - 2], d[3 * w - 1]>>)

\* C1: on a buffer of the expected length the check returns Ok only when
\* every 3-byte Word verifies, and CrcFailed as soon as at least one Word
\* carries a wrong checksum, wherever that Word is and whatever the other
\* Words are; no typed value is produced then.
C1_AnyBadWordRejectsBuffer ==
    (d_pc = "decoded" /\ Len(d_buf) = ExpectedLen(d_ty)) =>
        /\ d_res.ok => \A w \in 1..(Len(d_buf) \div 3) : WordVerifies(d_buf, w)
        /\ (\E w \in 1..(Len(d_buf) \div 3) : ~WordVerifies(d_buf, w)) =>
               d_res = Err(CrcFailed)

C1_Witness ==
    /\ d_pc = "decoded" /\ d_ty = "Measurement" /\ Len(d_buf) = 18
    /\ ~WordVerifies(d_buf, 6)
    /\ \A w \in 1..5 : WordVerifies(d_buf, w)
    /\ d_res = Err(CrcFailed)

\* C2: in a checksum-valid buffer (3 bytes, or 18 for a measurement),
\* replacing any one data byte by any other value, the checksum bytes left
\* as they were, makes the constructor fail with CrcFailed; no value, whole
\* or partial, is returned.
C2_AlteredDataByteRejected ==
    (d_pc = "decoded" /\ Cardinality(d_damage.data) = 1) =>
        d_res = Err(CrcFailed)

C2_Witness ==
    /\ d_pc = "decoded" /\ d_ty = "Measurement"
    /\ d_damage = [data |-> {17}, crc |-> {}, resized |-> FALSE]
    /\ d_res = Err(CrcFailed)

\* C3: a buffer whose length differs from the expected one, shorter or
\* longer, a multiple of 3 or not, is refused with ReceivedBufferWrongSize,
\* also when Words in it carry wrong checksums: never CrcFailed.
C3_WrongSizeBeforeChecksum ==
    (d_pc = "decoded" /\ Len(d_buf) # ExpectedLen(d_ty)) =>
        d_res = Err(ReceivedBufferWrongSize)

C3_Witness ==
    /\ d_pc = "decoded" /\ d_ty = "Measurement" /\ Len(d_buf) = 17
    /\ ~WordVerifies(d_buf, 1)
    /\ d_res = Err(ReceivedBufferWrongSize)

(***************************************************************************)
(* The checksum engine's claims, checked under SpecCrc.                    *)
(***************************************************************************)
\* C4: for every 2-byte word w, crc8_matches(w, compute_crc8(w)) is true.
C4_MatchesOwnChecksum ==
    (crc_pc = "verified" /\ crc_flip = 0 /\ Len(crc_in) = 2) => crc_ok

C4_Witness ==
    /\ crc_pc = "verified" /\ crc_flip = 0
    /\ crc_in = <<3, 66>> /\ crc_out = 243 /\ crc_ok

\* C5: for every 2-byte word w with checksum c = compute_crc8(w), inverting
\* any single one of the 16 bits of w or of the 8 bits of c makes
\* crc8_matches return false.
C5_SingleBitFlipDetected ==
    (crc_pc = "verified" /\ crc_flip # 0 /\ Len(crc_in) = 2) => ~crc_ok

C5_Witness ==
    /\ crc_pc = "verified" /\ crc_flip = 24 /\ Len(crc_in) = 2 /\ ~crc_ok

\* The CRC-8 of the claim, stated as arithmetic over GF(2) and not as a shift
\* register: the message with the initial value 0xFF xored into its first
\* byte, multiplied by x^8 and reduced modulo x^8 + x^5 + x^4 + 1 (0x131),
\* nothing reflected and nothing xored into the remainder.
RECURSIVE PolyMod(_, _)
PolyMod(v, bit) ==
    IF bit < 8 THEN v
    ELSE IF (v \div Pow2(bit)) % 2 = 1
         THEN PolyMod(BitXor(v, 305 * Pow2(bit - 8), 25), bit - 1)
         ELSE PolyMod(v, bit - 1)

RefCrc8(d) ==
    IF Len(d) = 1
    THEN PolyMod(BitXor(d[1], 255, 8) * 256, 15)
    ELSE PolyMod((BitXor(d[1], 255, 8) * 256 + d[2]) * 256, 23)

\* C6: compute_crc8 is the CRC-8 with polynomial 0x31, initial value 0xFF, no
\* reflection and no final xor, every value kept to 8 bits; [0xBE,0xEF],
\* [0x43,0xDB], [0x03,0x42] and [0x00] give 0x92, 0xCB, 0xF3 and 0xAC.
C6_Crc8Nrsc5 ==
    crc_pc = "computed" =>
        /\ crc_out \in Byte
        /\ crc_out = RefCrc8(crc_in)
        /\ (crc_in = <<190, 239>> => crc_out = 146)
        /\ (crc_in = <<67, 219>> => crc_out = 203)
        /\ (crc_in = <<3, 66>> => crc_out = 243)
        /\ (crc_in = <<0>> => crc_out = 172)

C6_Witness ==
    /\ crc_pc = "computed" /\ crc_in = <<190, 239>> /\ crc_out = 146

(***************************************************************************)
(* Spec: the operations of Scd30 against a bus that answers every call     *)
(* with Ok or with an error.  An operation that waits in a bus call may    *)
(* also be abandoned there (the future of the asynchronous variant is      *)
(* dropped); it then returns nothing.  `bus` and `result` start afresh     *)
(* with every operation.                                                   *)
(***************************************************************************)
MaxArgLen == 4

\* The numbers an AmbientPressure is asked for: around the ends of 700..1400,
\* the 800 of the driver's test, the default 1013, and 0, 1, 0xFFFF.
PressureInputs == {0, 1, 699, 700, 701, 800, 1013, 1399, 1400, 1401, 65535}

\* The pressures an AmbientPressure then holds: its field is private, so a
\* value exists only where AmbientPressure::try_from returned Ok.
PressureSamples ==
    {AmbientPressure_try_from(n).val.AmbientPressure :
        n \in {k \in PressureInputs : AmbientPressure_try_from(k).ok}}

\* The embedded_hal::i2c::ErrorKind values the bus fails with.
I2cErrors == {"Bus", "ArbitrationLoss", "Overrun", "Other"}

\* The arguments Scd30::write is tried with: 0 to MaxArgLen bytes.
RawArgs == UNION {[1..n -> {0, 255}] : n \in 0..MaxArgLen}

\* What the bus may put into a buffer of n bytes: what the device sends, or
\* that with the last checksum wrong.
ResponseBuffers(n) ==
    LET sent == IF n = 18 THEN DeviceBuffers("Measurement")
                ELSE DeviceBuffers("MeasurementInterval")
    IN  sent \cup {[b EXCEPT ![n] = Xor8(@, 255)] : b \in sent}

\* The operation was dropped while it waited for the bus.
Abandoned == [ok |-> FALSE, err |-> [kind |-> "abandoned"]]

Init ==
    /\ DriverIdle
    /\ CrcIdle
    /\ DeserIdle
    /\ ValueIdle
    /\ FloatIdle

\* How an operation that returned r ended.
Ending(r) ==
    IF r = Abandoned THEN "abandoned" ELSE IF r.ok THEN "ok" ELSE "failed"

\* The endings of the operations before the one that is called now.
Earlier ==
    IF prior = Unobserved \/ op = NoOp THEN prior
    ELSE prior \cup {Ending(result)}

\* Begin of a driver that remembers the command it wrote last and, when a
\* reading operation asks for the same command again, goes straight to the
\* bus read.
Begin_SkipsRepeatedWrite(name, command, value, data) ==
    LET frame == Scd30_write_frame(command, data)
        repeated == /\ name \in ReadOps
                    /\ op.command = command
                    /\ Len(bus) >= 1
                    /\ bus[1].outcome = "Ok"
    IN  /\ op' = [name |-> name, command |-> command, value |-> value,
                  data |-> data]
        /\ prior' = Earlier
        /\ IF repeated
           THEN /\ bus' = <<BusCall("read", BitOr(ADDRESS, READ_FLAG, 8),
                                    ZeroBuffer(DATA_SIZE(name)))>>
                /\ pc' = "read"
                /\ result' = NoResult
           ELSE IF frame.ok
           THEN /\ bus' = <<BusCall("write", BitOr(ADDRESS, WRITE_FLAG, 8),
                                    frame.val)>>
                /\ pc' = "write"
                /\ result' = NoResult
           ELSE /\ bus' = <<>>
                /\ pc' = "idle"
                /\ result' = frame
        /\ UNCHANGED <<crcVars, deserVars, valueVars, floatVars>>

\* An operation from its call to its first bus call, through Scd30::write:
\* the frame is built and handed to i2c.write, or the argument is refused.
Begin(name, command, value, data) ==
    LET frame == Scd30_write_frame(command, data)
    IN  /\ op' = [name |-> name, command |-> command, value |-> value,
                  data |-> data]
        /\ prior' = Earlier
        /\ IF frame.ok
           THEN /\ bus' = <<BusCall("write", BitOr(ADDRESS, WRITE_FLAG, 8),
                                    frame.val)>>
                /\ pc' = "write"
                /\ result' = NoResult
           ELSE /\ bus' = <<>>
                /\ pc' = "idle"
                /\ result' = frame
        /\ UNCHANGED <<crcVars, deserVars, valueVars, floatVars>>

\* Scd30::read from its call to its first bus call: self.write(command, None).
BeginRead(name, command) == Begin(name, command, -1, None)

\* `let data = match pressure_compensation { .. }`.
trigger_continuous_measurements_data(pressure_compensation) ==
    IF ~pressure_compensation.some THEN <<0, 0>>
    ELSE AmbientPressureCompensation_to_be_bytes(pressure_compensation.val)

trigger_continuous_measurements ==
    /\ pc = "idle"
    /\ \/ Begin("trigger_continuous_measurements",
                "TriggerContinuousMeasurement", 0,
                Some(trigger_continuous_measurements_data(None)))
       \/ \E pres \in {DefaultPressure}
                      \cup {CompensationPressure(p) : p \in PressureSamples} :
             Begin("trigger_continuous_measurements",
                   "TriggerContinuousMeasurement", pres.pressure,
                   Some(trigger_continuous_measurements_data(Some(pres))))

stop_continuous_measurements ==
    /\ pc = "idle"
    /\ Begin("stop_continuous_measurements", "StopContinuousMeasurement",
             -1, None)

set_measurement_interval ==
    /\ pc = "idle"
    /\ \E interval \in WordSamples :
        Begin("set_measurement_interval", "SetMeasurementInterval", interval,
              Some(U16ToBeBytes(interval)))

get_measurement_interval ==
    /\ pc = "idle"
    /\ BeginRead("get_measurement_interval", "SetMeasurementInterval")

is_data_ready ==
    /\ pc = "idle"
    /\ BeginRead("is_data_ready", "GetDataReady")

read_measurement ==
    /\ pc = "idle"
    /\ BeginRead("read_measurement", "ReadMeasurement")

set_automatic_self_calibration ==
    /\ pc = "idle"
    /\ \E setting \in {"Active", "Inactive"} :
        Begin("set_automatic_self_calibration",
              "ActivateAutomaticSelfCalibration",
              AutomaticSelfCalibration_as_u16(setting),
              Some(AutomaticSelfCalibration_to_be_bytes(setting)))

get_automatic_self_calibration ==
    /\ pc = "idle"
    /\ BeginRead("get_automatic_self_calibration",
                 "ActivateAutomaticSelfCalibration")

set_forced_recalibration ==
    /\ pc = "idle"
    /\ \E frc \in WordSamples :
        Begin("set_forced_recalibration", "ForcedRecalibrationValue", frc,
              Some(U16ToBeBytes(frc)))

\* get_forced_recalibration asking with a command of its own.
get_forced_recalibration_OwnCommand ==
    /\ pc = "idle"
    /\ BeginRead("get_forced_recalibration", "GetDataReady")

get_forced_recalibration ==
    /\ pc = "idle"
    /\ BeginRead("get_forced_recalibration", "ForcedRecalibrationValue")

set_temperature_offset ==
    /\ pc = "idle"
    /\ \E offset \in WordSamples :
        Begin("set_temperature_offset", "SetTemperatureOffset", offset,
              Some(U16ToBeBytes(offset)))

get_temperature_offset ==
    /\ pc = "idle"
    /\ BeginRead("get_temperature_offset", "SetTemperatureOffset")

set_altitude_compensation ==
    /\ pc = "idle"
    /\ \E altitude \in WordSamples :
        Begin("set_altitude_compensation", "SetAltitudeCompensation", altitude,
              Some(U16ToBeBytes(altitude)))

get_altitude_compensation ==
    /\ pc = "idle"
    /\ BeginRead("get_altitude_compensation", "SetAltitudeCompensation")

read_firmware_version ==
    /\ pc = "idle"
    /\ BeginRead("read_firmware_version", "ReadFirmwareVersion")

soft_reset ==
    /\ pc = "idle"
    /\ Begin("soft_reset", "SoftReset", -1, None)

\* Scd30::write called as the driver's tests call it, with any command and
\* any argument.
Scd30_write ==
    /\ pc = "idle"
    /\ \E command \in Commands :
        \/ Begin("write", command, -1, None)
        \/ \E data \in RawArgs : Begin("write", command, -1, Some(data))

\* The bus call the operation waits in, answered with `outcome`.
Answered(outcome) == [bus EXCEPT ![Len(bus)].outcome = outcome]

\* i2c.write failed and issues the write again.
BusWriteFails_Retries ==
    /\ pc = "write"
    /\ \E e \in I2cErrors :
        bus' = Append(Answered(e), BusCall("write", bus[Len(bus)].address,
                                           bus[Len(bus)].bytes))
    /\ UNCHANGED <<pc, op, result, prior>>
    /\ UNCHANGED <<crcVars, deserVars, valueVars, floatVars>>

\* i2c.write returned an error and Scd30::read goes on to i2c.read all the
\* same.
BusWriteFails_ReadsAnyway ==
    /\ pc = "write"
    /\ \E e \in I2cErrors :
        IF op.name \in ReadOps
        THEN /\ bus' = Append(Answered(e),
                              BusCall("read", BitOr(ADDRESS, READ_FLAG, 8),
                                      ZeroBuffer(DATA_SIZE(op.name))))
             /\ pc' = "read"
             /\ UNCHANGED result
        ELSE /\ bus' = Answered(e)
             /\ pc' = "idle"
             /\ result' = Err(I2cError(e))
    /\ UNCHANGED <<op, prior>>
    /\ UNCHANGED <<crcVars, deserVars, valueVars, floatVars>>

\* i2c.write returned an error: `?` returns it from Scd30::write, and from
\* Scd30::read and the operation in turn.
BusWriteFails ==
    /\ pc = "write"
    /\ \E e \in I2cErrors :
        /\ bus' = Answered(e)
        /\ result' = Err(I2cError(e))
    /\ pc' = "idle"
    /\ UNCHANGED <<op, prior>>
    /\ UNCHANGED <<crcVars, deserVars, valueVars, floatVars>>

\* i2c.write returned Ok: an operation that only writes returns Ok(()); one
\* that reads goes on in Scd30::read to i2c.read with a zeroed buffer of
\* DATA_SIZE bytes.
BusWriteOk ==
    /\ pc = "write"
    /\ IF op.name \in ReadOps
       THEN /\ bus' = Append(Answered("Ok"),
                             BusCall("read", BitOr(ADDRESS, READ_FLAG, 8),
                                     ZeroBuffer(DATA_SIZE(op.name))))
            /\ pc' = "read"
            /\ UNCHANGED result
       ELSE /\ bus' = Answered("Ok")
            /\ pc' = "idle"
            /\ result' = OkUnit
    /\ UNCHANGED <<op, prior>>
    /\ UNCHANGED <<crcVars, deserVars, valueVars, floatVars>>

\* i2c.read returned an error: `?` returns it, nothing is decoded.
BusReadFails ==
    /\ pc = "read"
    /\ \E e \in I2cErrors :
        /\ bus' = Answered(e)
        /\ result' = Err(I2cError(e))
    /\ pc' = "idle"
    /\ UNCHANGED <<op, prior>>
    /\ UNCHANGED <<crcVars, deserVars, valueVars, floatVars>>

\* i2c.read filled the buffer: the constructor of the operation's type
\* decodes it.
BusReadOk ==
    /\ pc = "read"
    /\ \E b \in ResponseBuffers(Len(bus[Len(bus)].bytes)) :
        /\ bus' = [Answered("Ok") EXCEPT ![Len(bus)].bytes = b]
        /\ result' = WrapDataError(TryFromBuffer(ResultType(op.name), b))
    /\ pc' = "idle"
    /\ UNCHANGED <<op, prior>>
    /\ UNCHANGED <<crcVars, deserVars, valueVars, floatVars>>

\* The operation is dropped while it waits for the bus.
Abandon ==
    /\ pc \in {"write", "read"}
    /\ pc' = "idle"
    /\ result' = Abandoned
    /\ UNCHANGED <<op, bus, prior>>
    /\ UNCHANGED <<crcVars, deserVars, valueVars, floatVars>>

Next ==
    \/ trigger_continuous_measurements
    \/ stop_continuous_measurements
    \/ set_measurement_interval
    \/ get_measurement_interval
    \/ is_data_ready
    \/ read_measurement
    \/ set_automatic_self_calibration
    \/ get_automatic_self_calibration
    \/ set_forced_recalibration
    \/ get_forced_recalibration
    \/ set_temperature_offset
    \/ get_temperature_offset
    \/ set_altitude_compensation
    \/ get_altitude_compensation
    \/ read_firmware_version
    \/ soft_reset
    \/ Scd30_write
    \/ BusWriteOk
    \/ BusWriteFails
    \/ BusReadOk
    \/ BusReadFails
    \/ Abandon

Spec == Init /\ [][Next]_vars

(***************************************************************************)
(* SpecUsed: one driver from Scd30::new on, its public operations called   *)
(* one after another, each ending with a result, with an error or          *)
(* abandoned in a bus call.  How the earlier operations ended is kept in   *)
(* `prior`, so that a state tells a used driver from a fresh one.          *)
(***************************************************************************)
\* Scd30::new(i2c): no operation has been called yet.
InitUsed ==
    /\ pc = "idle"
    /\ op = NoOp
    /\ bus = <<>>
    /\ result = NoResult
    /\ prior = {}
    /\ CrcIdle
    /\ DeserIdle
    /\ ValueIdle
    /\ FloatIdle

NextUsed ==
    \/ trigger_continuous_measurements
    \/ stop_continuous_measurements
    \/ set_measurement_interval
    \/ get_measurement_interval
    \/ is_data_ready
    \/ read_measurement
    \/ set_automatic_self_calibration
    \/ get_automatic_self_calibration
    \/ set_forced_recalibration
    \/ get_forced_recalibration
    \/ set_temperature_offset
    \/ get_temperature_offset
    \/ set_altitude_compensation
    \/ get_altitude_compensation
    \/ read_firmware_version
    \/ soft_reset
    \/ BusWriteOk
    \/ BusWriteFails
    \/ BusReadOk
    \/ BusReadFails
    \/ Abandon

SpecUsed == InitUsed /\ [][NextUsed]_vars

(***************************************************************************)
(* The driver's claims, checked under Spec.                                *)
(***************************************************************************)
\* The two bytes of a command's opcode, the high byte first.
OpcodeBytes(command) ==
    <<CommandOpcode(command) \div 256, CommandOpcode(command) % 256>>

\* The operation called last has returned to its caller.
Returned == pc = "idle" /\ op # NoOp /\ result # Abandoned

\* C7: every frame handed to the bus write is either exactly the 2 opcode
\* bytes, high byte first (no argument), or exactly 5 bytes: the opcode, the
\* argument's high byte (v div 256) and low byte (v mod 256), and
\* compute_crc8 of those two argument bytes; TriggerContinuousMeasurement
\* with pressure 800 gives [0x00,0x10,0x03,0x20,0x2A].
C7_WriteFrameLayout ==
    \A i \in 1..Len(bus) :
        bus[i].call = "write" =>
            LET f == bus[i].bytes
            IN  /\ \/ /\ ~op.data.some
                      /\ f = OpcodeBytes(op.command)
                   \/ /\ op.data.some
                      /\ Len(f) = 5
                      /\ SubSeq(f, 1, 2) = OpcodeBytes(op.command)
                      /\ IF op.value # -1
                         THEN f[3] = op.value \div 256 /\ f[4] = op.value % 256
                         ELSE <<f[3], f[4]>> = op.data.val
                      /\ f[5] = compute_crc8(<<f[3], f[4]>>)
                /\ (op.name = "trigger_continuous_measurements"
                        /\ op.value = 800) => f = <<0, 16, 3, 32, 42>>

C7_Witness ==
    /\ pc = "write"
    /\ op.name = "trigger_continuous_measurements" /\ op.value = 800
    /\ Len(bus) = 1 /\ bus[1].call = "write"
    /\ bus[1].bytes = <<0, 16, 3, 32, 42>>

\* C8: an operation that only writes and succeeds has issued exactly one bus
\* write and no bus read; an operation that reads issues one bus write of
\* the 2-byte opcode frame and then, only after that write has succeeded,
\* exactly one bus read into a buffer of 18 bytes for read_measurement and
\* of 3 bytes for every other one.
C8_OneWriteThenOneRead ==
    /\ (Returned /\ result.ok /\ op.name \notin ReadOps) =>
           (Len(bus) = 1 /\ bus[1].call = "write")
    /\ (op.name \in ReadOps /\ pc = "write") =>
           /\ Len(bus) = 1
           /\ bus[1].call = "write"
           /\ bus[1].outcome = "pending"
           /\ bus[1].bytes = OpcodeBytes(op.command)
    /\ (op.name \in ReadOps /\ Len(bus) >= 1 /\ bus[1].outcome = "Ok") =>
           /\ Len(bus) = 2
           /\ bus[1].call = "write"
           /\ bus[1].bytes = OpcodeBytes(op.command)
           /\ bus[2].call = "read"
           /\ Len(bus[2].bytes) = IF op.name = "read_measurement" THEN 18 ELSE 3
    /\ \A i \in 1..Len(bus) :
           bus[i].call = "read" =>
               (i = 2 /\ bus[1].call = "write" /\ bus[1].outcome = "Ok")

C8_Witness ==
    /\ Returned /\ result.ok
    /\ op.name = "read_measurement"
    /\ Len(bus) = 2
    /\ bus[1].call = "write" /\ bus[1].bytes = <<3, 0>> /\ bus[1].outcome = "Ok"
    /\ bus[2].call = "read" /\ Len(bus[2].bytes) = 18 /\ bus[2].outcome = "Ok"

\* C9: nothing is retried.  A failed bus write is returned as I2cError with
\* the bus's error unchanged, and neither a bus read nor a second write
\* follows; a failed bus read is returned the same way and nothing is
\* decoded; a buffer that does not decode is returned as the DataError.  No
\* operation issues more than one bus write or more than one bus read.
C9_NoRetry ==
    /\ Cardinality({i \in 1..Len(bus) : bus[i].call = "write"}) <= 1
    /\ Cardinality({i \in 1..Len(bus) : bus[i].call = "read"}) <= 1
    /\ Returned =>
        /\ (Len(bus) >= 1 /\ bus[1].outcome \in I2cErrors) =>
               (Len(bus) = 1 /\ result = Err(I2cError(bus[1].outcome)))
        /\ (Len(bus) = 2 /\ bus[2].outcome \in I2cErrors) =>
               result = Err(I2cError(bus[2].outcome))
        /\ (Len(bus) = 2 /\ bus[2].outcome = "Ok"
                /\ \E w \in 1..(Len(bus[2].bytes) \div 3) :
                       ~WordVerifies(bus[2].bytes, w)) =>
               result = Err(DataError(CrcFailed))
        /\ (Len(bus) = 2 /\ bus[2].outcome = "Ok"
                /\ WordVerifies(bus[2].bytes, 1)
                /\ op.name \in {"is_data_ready", "get_automatic_self_calibration"}
                /\ bus[2].bytes[2] \notin {0, 1}) =>
               /\ ~result.ok
               /\ result.err.variant = "DataError"
               /\ result.err.inner.kind = "UnexpectedValueReceived"

C9_Witness ==
    /\ Returned
    /\ op.name = "read_firmware_version"
    /\ Len(bus) = 2
    /\ bus[1].outcome = "Ok"
    /\ bus[2].call = "read" /\ bus[2].outcome = "Other"
    /\ result = Err(I2cError("Other"))

\* C10: Scd30::write called with an argument whose length is not exactly 2
\* bytes returns SentDataToBig and performs no bus write at all.
C10_WrongArgumentLengthRefused ==
    (op.name = "write" /\ op.data.some /\ Len(op.data.val) # 2) =>
        /\ pc = "idle"
        /\ bus = <<>>
        /\ result = Err(SentDataToBig)

C10_Witness ==
    /\ op.name = "write" /\ op.command = "SetTemperatureOffset"
    /\ op.data = Some(<<0, 0, 0, 0>>)
    /\ pc = "idle" /\ bus = <<>>
    /\ result = Err(SentDataToBig)

(***************************************************************************)
(* SpecValue: one domain value from its construction on.  The caller       *)
(* constructs it from a raw 16-bit number, from a received buffer (any     *)
(* checksum-valid Word the device can send), or names a variant of         *)
(* AutomaticSelfCalibration.  A value that has to_be_bytes is then         *)
(* serialized and followed by the checksum of its two bytes, and the       *)
(* buffer constructor of its type, when it has one, is given that buffer.  *)
(***************************************************************************)
\* The types with a buffer constructor that read one Word.
WordTypes == BufferTypes \ {"Measurement"}

\* The variant of AutomaticSelfCalibration with discriminant n.
AutomaticSelfCalibration_variant(n) == IF n = 1 THEN "Active" ELSE "Inactive"

InitValue ==
    /\ \/ /\ v_ty \in NumberTypes
          /\ v_in \in {[from |-> "number", n |-> n] : n \in U16}
       \/ /\ v_ty \in WordTypes
          /\ v_in \in {[from |-> "buffer", n |-> n] : n \in U16}
       \/ /\ v_ty = "AutomaticSelfCalibration"
          /\ v_in \in {[from |-> "variant", n |-> n] : n \in {0, 1}}
    /\ v_res = NoResult
    /\ v_ser = <<>>
    /\ v_back = NoResult
    /\ v_pc = "input"
    /\ CrcIdle
    /\ DeserIdle
    /\ DriverIdle
    /\ FloatIdle

\* T::try_from(n) or T::from(n).
FromNumber ==
    /\ v_pc = "input"
    /\ v_in.from = "number"
    /\ v_res' = TryFromU16(v_ty, v_in.n)
    /\ v_pc' = "built"
    /\ UNCHANGED <<v_ty, v_in, v_ser, v_back>>
    /\ UNCHANGED <<crcVars, deserVars, driverVars, floatVars>>

\* T::try_from(&data[..]) on the Word that carries the number v_in.n.
FromBuffer ==
    /\ v_pc = "input"
    /\ v_in.from = "buffer"
    /\ v_res' = TryFromBuffer(v_ty, Word(v_in.n))
    /\ v_pc' = "built"
    /\ UNCHANGED <<v_ty, v_in, v_ser, v_back>>
    /\ UNCHANGED <<crcVars, deserVars, driverVars, floatVars>>

\* AutomaticSelfCalibration::Active or AutomaticSelfCalibration::Inactive.
FromVariant ==
    /\ v_pc = "input"
    /\ v_in.from = "variant"
    /\ v_res' = Ok([AutomaticSelfCalibration |->
                        AutomaticSelfCalibration_variant(v_in.n)])
    /\ v_pc' = "built"
    /\ UNCHANGED <<v_ty, v_in, v_ser, v_back>>
    /\ UNCHANGED <<crcVars, deserVars, driverVars, floatVars>>

\* v.to_be_bytes(), followed by compute_crc8 of the two bytes.
Serialize ==
    /\ v_pc = "built"
    /\ v_res.ok
    /\ v_ty \in SerializableTypes
    /\ v_ser' = ToBeBytes(v_ty, v_res.val)
                    \o <<compute_crc8(ToBeBytes(v_ty, v_res.val))>>
    /\ v_pc' = "serialized"
    /\ UNCHANGED <<v_ty, v_in, v_res, v_back>>
    /\ UNCHANGED <<crcVars, deserVars, driverVars, floatVars>>

\* T::try_from(&data[..]) on the serialized value.
DecodeBack ==
    /\ v_pc = "serialized"
    /\ v_ty \in WordTypes
    /\ v_back' = TryFromBuffer(v_ty, v_ser)
    /\ v_pc' = "decoded"
    /\ UNCHANGED <<v_ty, v_in, v_res, v_ser>>
    /\ UNCHANGED <<crcVars, deserVars, driverVars, floatVars>>

NextValue == FromNumber \/ FromBuffer \/ FromVariant \/ Serialize \/ DecodeBack

SpecValue == InitValue /\ [][NextValue]_vars

(***************************************************************************)
(* The claims about domain values, checked under SpecValue.                *)
(***************************************************************************)
\* The constructor has returned.
Built == v_pc \in {"built", "serialized", "decoded"}

\* C11: AmbientPressure::try_from(p) succeeds exactly when 700 <= p <= 1400;
\* p = 0 fails with UseDefaultPressure and not with ValueOutOfRange; every
\* other p (1..699 and 1401..65535) fails with ValueOutOfRange carrying min
\* 700, max 1400 and unit mBar.
C11_AmbientPressureRange ==
    (Built /\ v_ty = "AmbientPressure" /\ v_in.from = "number") =>
        /\ v_res.ok <=> (700 <= v_in.n /\ v_in.n <= 1400)
        /\ v_res.ok => v_res.val = [AmbientPressure |-> v_in.n]
        /\ v_in.n = 0 => v_res = Err(UseDefaultPressure)
        /\ v_in.n \in (1..699) \cup (1401..65535) =>
               /\ ~v_res.ok
               /\ v_res.err.kind = "ValueOutOfRange"
               /\ v_res.err.min = 700
               /\ v_res.err.max = 1400
               /\ v_res.err.unit = "mBar"

C11_Witness ==
    /\ v_pc = "built" /\ v_ty = "AmbientPressure"
    /\ v_in = [from |-> "number", n |-> 0]
    /\ v_res = Err(UseDefaultPressure)

WithinBounds(v) ==
    LET fields == DOMAIN v
    IN  /\ "MeasurementInterval" \in fields =>
               v.MeasurementInterval \in 2..1800
        /\ "ForcedRecalibrationValue" \in fields =>
               v.ForcedRecalibrationValue \in 400..2000
        /\ "AmbientPressure" \in fields => v.AmbientPressure \in 700..1400

\* C13 as stated: whatever public constructor made it, from a raw number or
\* from a received buffer, every MeasurementInterval holds a number in
\* 2..1800, every ForcedRecalibrationValue a number in 400..2000 and every
\* AmbientPressure a number in 700..1400.
C13_EveryValueWithinBounds ==
    /\ (Built /\ v_res.ok) => WithinBounds(v_res.val)
    /\ (v_pc = "decoded" /\ v_back.ok) => WithinBounds(v_back.val)

\* C13, amended: every MeasurementInterval, ForcedRecalibrationValue and
\* AmbientPressure constructed from a raw number holds a number within its
\* bounds, and so does the value decoded from its serialization; a
\* MeasurementInterval or ForcedRecalibrationValue constructed from a
\* received buffer holds the 16-bit number the buffer carries, whatever it is.
C13_NumberValuesWithinBounds ==
    /\ (Built /\ v_res.ok /\ v_in.from = "number") => WithinBounds(v_res.val)
    /\ (v_pc = "decoded" /\ v_back.ok /\ v_in.from = "number") =>
           WithinBounds(v_back.val)
    /\ (Built /\ v_in.from = "buffer" /\ v_ty = "MeasurementInterval") =>
           v_res = Ok([MeasurementInterval |-> v_in.n])
    /\ (Built /\ v_in.from = "buffer" /\ v_ty = "ForcedRecalibrationValue") =>
           v_res = Ok([ForcedRecalibrationValue |-> v_in.n])

C13_Witness ==
    /\ v_pc = "decoded" /\ v_ty = "ForcedRecalibrationValue"
    /\ v_in = [from |-> "number", n |-> 2000]
    /\ v_res = Ok([ForcedRecalibrationValue |-> 2000])
    /\ v_back = Ok([ForcedRecalibrationValue |-> 2000])

\* The value of the type named ty that holds the data bytes hi and lo.
Holding(ty, hi, lo) ==
    CASE ty = "MeasurementInterval" -> [MeasurementInterval |-> 256 * hi + lo]
      [] ty = "ForcedRecalibrationValue" ->
             [ForcedRecalibrationValue |-> 256 * hi + lo]
      [] ty = "TemperatureOffset" -> [TemperatureOffset |-> 256 * hi + lo]
      [] ty = "AltitudeCompensation" -> [AltitudeCompensation |-> 256 * hi + lo]
      [] ty = "FirmwareVersion" -> [major |-> hi, minor |-> lo]

\* C14: every checksum-valid 3-byte buffer [hi, lo, crc] decodes
\* successfully as MeasurementInterval, ForcedRecalibrationValue,
\* TemperatureOffset and AltitudeCompensation holding 256*hi + lo, and as
\* FirmwareVersion with major = hi and minor = lo; no pair of data bytes is
\* refused for its value.
C14_AnyWordAccepted ==
    (Built /\ v_in.from = "buffer"
        /\ v_ty \in {"MeasurementInterval", "ForcedRecalibrationValue",
                     "TemperatureOffset", "AltitudeCompensation",
                     "FirmwareVersion"}) =>
        v_res = Ok(Holding(v_ty, v_in.n \div 256, v_in.n % 256))

C14_Witness ==
    /\ v_pc = "built" /\ v_ty = "MeasurementInterval"
    /\ v_in = [from |-> "buffer", n |-> 65535]
    /\ v_res = Ok([MeasurementInterval |-> 65535])

\* C15: for MeasurementInterval, ForcedRecalibrationValue, TemperatureOffset,
\* AltitudeCompensation and AutomaticSelfCalibration and every value v that
\* can be constructed, decoding to_be_bytes(v) followed by
\* compute_crc8(to_be_bytes(v)) succeeds and yields a value equal to v.
C15_RoundTrip ==
    /\ (v_pc = "serialized" /\ v_ty \in WordTypes) =>
           /\ Len(v_ser) = 3
           /\ v_ser[3] = compute_crc8(<<v_ser[1], v_ser[2]>>)
    /\ v_pc = "decoded" => v_back = Ok(v_res.val)

C15_Witness ==
    /\ v_pc = "decoded" /\ v_ty = "AutomaticSelfCalibration"
    /\ v_in = [from |-> "variant", n |-> 1]
    /\ v_ser = <<0, 1, 176>>
    /\ v_back = Ok([AutomaticSelfCalibration |-> "Active"])

\* C16: decoding a checksum-valid 3-byte buffer as AutomaticSelfCalibration
\* or DataStatus maps the received value 1 to Active or Ready, the value 0 to
\* Inactive or NotReady, and fails for every other received value with
\* UnexpectedValueReceived carrying that value as `actual`; no third variant
\* is produced.  The received value is the byte data[1] the constructors
\* match on.
C16_DiscreteDecoding ==
    (Built /\ v_in.from = "buffer"
        /\ v_ty \in {"AutomaticSelfCalibration", "DataStatus"}) =>
        LET received == Word(v_in.n)[2]
            isAsc == v_ty = "AutomaticSelfCalibration"
        IN  /\ received = 1 =>
                   v_res = IF isAsc
                           THEN Ok([AutomaticSelfCalibration |-> "Active"])
                           ELSE Ok([DataStatus |-> "Ready"])
            /\ received = 0 =>
                   v_res = IF isAsc
                           THEN Ok([AutomaticSelfCalibration |-> "Inactive"])
                           ELSE Ok([DataStatus |-> "NotReady"])
            /\ received \notin {0, 1} =>
                   /\ ~v_res.ok
                   /\ v_res.err.kind = "UnexpectedValueReceived"
                   /\ v_res.err.actual = received
            /\ v_res.ok =>
                   v_res.val \in {[AutomaticSelfCalibration |-> "Active"],
                                  [AutomaticSelfCalibration |-> "Inactive"],
                                  [DataStatus |-> "Ready"],
                                  [DataStatus |-> "NotReady"]}

C16_Witness ==
    /\ v_pc = "built" /\ v_ty = "DataStatus"
    /\ v_in = [from |-> "buffer", n |-> 2]
    /\ v_res = Err(UnexpectedValueReceived("Data ready status", "0 or 1", 2))

(***************************************************************************)
(* The layout of a measurement, checked under SpecDeser.                   *)
(***************************************************************************)
\* The 32-bit pattern of a high Word hi1, hi2 and a low Word lo1, lo2.
Pattern(hi1, hi2, lo1, lo2) == (256 * hi1 + hi2) * 65536 + (256 * lo1 + lo2)

\* C17: for every checksum-valid 18-byte buffer d (d0 is d[1] here), the
\* decoded Measurement's patterns are, big-endian, [d0,d1,d3,d4] for CO2,
\* [d6,d7,d9,d10] for temperature and [d12,d13,d15,d16] for humidity: no
\* checksum byte enters a value and the high Word precedes the low Word.  The
\* sample buffer 43 DB CB 8C 2E 8F 41 D9 70 E7 FF F5 42 43 BF 3A 1B 74 gives
\* 0x43DB8C2E, 0x41D9E7FF and 0x42433A1B.
C17_MeasurementLayout ==
    (d_pc = "decoded" /\ d_ty = "Measurement" /\ Len(d_buf) = 18
        /\ \A w \in 1..6 : WordVerifies(d_buf, w)) =>
        /\ d_res.ok
        /\ d_res.val.co2_concentration =
               Pattern(d_buf[1], d_buf[2], d_buf[4], d_buf[5])
        /\ d_res.val.temperature =
               Pattern(d_buf[7], d_buf[8], d_buf[10], d_buf[11])
        /\ d_res.val.humidity =
               Pattern(d_buf[13], d_buf[14], d_buf[16], d_buf[17])
        /\ d_buf = <<67, 219, 203, 140, 46, 143, 65, 217, 112,
                     231, 255, 245, 66, 67, 191, 58, 27, 116>> =>
               d_res.val = [co2_concentration |-> 1138461742,
                            temperature |-> 1104799743,
                            humidity |-> 1111702043]

C17_Witness ==
    /\ d_pc = "decoded" /\ d_ty = "Measurement"
    /\ d_buf = <<67, 219, 203, 140, 46, 143, 65, 217, 112,
                 231, 255, 245, 66, 67, 191, 58, 27, 116>>
    /\ d_res = Ok([co2_concentration |-> 1138461742,
                   temperature |-> 1104799743,
                   humidity |-> 1111702043])

(***************************************************************************)
(* The command table and the bus address, checked under Spec.              *)
(***************************************************************************)
\* The opcode table as the specification lists it, as bytes: 0x0010 is
\* 00 10, 0x0104 is 01 04, and so on.
ListedOpcode ==
    [TriggerContinuousMeasurement |-> <<0, 16>>,
     StopContinuousMeasurement |-> <<1, 4>>,
     SetMeasurementInterval |-> <<70, 0>>,
     GetDataReady |-> <<2, 2>>,
     ReadMeasurement |-> <<3, 0>>,
     ActivateAutomaticSelfCalibration |-> <<83, 6>>,
     ForcedRecalibrationValue |-> <<82, 4>>,
     SetTemperatureOffset |-> <<84, 3>>,
     SetAltitudeCompensation |-> <<81, 2>>,
     ReadFirmwareVersion |-> <<209, 0>>,
     SoftReset |-> <<211, 4>>]

\* C18: each of the 11 commands is written as the big-endian bytes of its
\* listed opcode, and no two commands share an opcode: the first two bytes
\* of a frame name exactly one command, the one that was sent.
C18_OpcodeTable ==
    /\ Cardinality(Commands) = 11
    /\ DOMAIN ListedOpcode = Commands
    /\ \A i \in 1..Len(bus) :
           bus[i].call = "write" =>
               /\ SubSeq(bus[i].bytes, 1, 2) = ListedOpcode[op.command]
               /\ \A c \in Commands :
                      SubSeq(bus[i].bytes, 1, 2) = Command_to_be_bytes(c) =>
                          c = op.command

C18_Witness ==
    /\ op.name = "soft_reset" /\ op.command = "SoftReset"
    /\ Len(bus) = 1 /\ bus[1].call = "write" /\ bus[1].bytes = <<211, 4>>

\* C19 as stated: the direction of a bus call is in the low bit of the
\* address byte handed to the bus: 0 for every bus write, 1 for every bus
\* read, so that the two addresses differ.
C19_DirectionInLowBit ==
    /\ \A i \in 1..Len(bus) :
           /\ bus[i].call = "write" => bus[i].address % 2 = 0
           /\ bus[i].call = "read" => bus[i].address % 2 = 1
    /\ \A i, j \in 1..Len(bus) :
           (bus[i].call = "write" /\ bus[j].call = "read") =>
               bus[i].address # bus[j].address

(***************************************************************************)
(* The driver between calls, checked under SpecUsed.                       *)
(***************************************************************************)
\* What the bus has answered to the operation so far: for each answered call
\* its outcome and, for a read, the bytes the buffer holds afterwards.
Answers ==
    LET answered == SelectSeq(bus, LAMBDA c : c.outcome # "pending")
    IN  [i \in 1..Len(answered) |->
            [outcome |-> answered[i].outcome, bytes |-> answered[i].bytes]]

\* The operation o on a driver that has just been created, given the answers
\* of the bus and whether the caller dropped it while it waited: the bus
\* calls it issues, what it returns and where it stands.
OnFreshDriver(o, answers, dropped) ==
    LET frame == Scd30_write_frame(o.command, o.data)
        write == BusCall("write", BitOr(ADDRESS, WRITE_FLAG, 8), frame.val)
        read == BusCall("read", BitOr(ADDRESS, READ_FLAG, 8),
                        ZeroBuffer(DATA_SIZE(o.name)))
        waiting(calls) ==
            [bus |-> calls,
             result |-> IF dropped THEN Abandoned ELSE NoResult,
             pc |-> IF dropped THEN "idle" ELSE calls[Len(calls)].call]
        returned(calls, r) == [bus |-> calls, result |-> r, pc |-> "idle"]
    IN  IF ~frame.ok THEN returned(<<>>, frame)
        ELSE IF Len(answers) = 0 THEN waiting(<<write>>)
        ELSE LET w == [write EXCEPT !.outcome = answers[1].outcome]
             IN  IF answers[1].outcome # "Ok"
                 THEN returned(<<w>>, Err(I2cError(answers[1].outcome)))
                 ELSE IF o.name \notin ReadOps THEN returned(<<w>>, OkUnit)
                 ELSE IF Len(answers) = 1 THEN waiting(<<w, read>>)
                 ELSE LET r == [read EXCEPT !.outcome = answers[2].outcome,
                                            !.bytes = answers[2].bytes]
                      IN  IF answers[2].outcome # "Ok"
                          THEN returned(<<w, r>>,
                                        Err(I2cError(answers[2].outcome)))
                          ELSE returned(<<w, r>>,
                                   WrapDataError(TryFromBuffer(
                                       ResultType(o.name), answers[2].bytes)))

\* C20: the driver keeps no state between calls.  Whatever operations ran
\* before on the driver and however they ended (with a result, with an
\* error, abandoned between the write and the read), the bus calls of an
\* operation and its result are those of the same operation, given the same
\* answers of the bus, on a freshly created driver.
C20_NoStateBetweenCalls ==
    op # NoOp =>
        [bus |-> bus, result |-> result, pc |-> pc]
            = OnFreshDriver(op, Answers, result = Abandoned)

C20_Witness ==
    /\ prior = {"ok", "failed", "abandoned"}
    /\ Returned
    /\ op.name = "get_measurement_interval"
    /\ Len(bus) = 2
    /\ bus[1].bytes = <<70, 0>> /\ bus[1].outcome = "Ok"
    /\ bus[2].bytes = <<0, 2, 227>> /\ bus[2].outcome = "Ok"
    /\ result = Ok([MeasurementInterval |-> 2])

(***************************************************************************)
(* The argument of trigger_continuous_measurements, checked under Spec.    *)
(***************************************************************************)
\* C21: trigger_continuous_measurements always sends a 5-byte frame with an
\* argument.  Called with None or with Some(DefaultPressure) it writes the
\* same frame [0x00,0x10,0x00,0x00,0x81] (argument 0); called with
\* CompensationPressure(p) it writes the argument p, and p is within
\* 700..1400.  The argument on the wire is 0 or within 700..1400.
C21_TriggerArgument ==
    /\ trigger_continuous_measurements_data(None)
           = trigger_continuous_measurements_data(Some(DefaultPressure))
    /\ Scd30_write_frame("TriggerContinuousMeasurement",
                         Some(trigger_continuous_measurements_data(None)))
           = Ok(<<0, 16, 0, 0, 129>>)
    /\ op.name = "trigger_continuous_measurements" =>
           /\ Len(bus) = 1
           /\ bus[1].call = "write"
           /\ Len(bus[1].bytes) = 5
           /\ LET argument == ReadU16(bus[1].bytes[3], bus[1].bytes[4])
              IN  /\ argument = op.value
                  /\ argument = 0 \/ argument \in 700..1400
                  /\ argument = 0 => bus[1].bytes = <<0, 16, 0, 0, 129>>

C21_Witness ==
    /\ op.name = "trigger_continuous_measurements"
    /\ op.value = 1400
    /\ bus[1].bytes = <<0, 16, 5, 120, compute_crc8(<<5, 120>>)>>
    /\ bus[1].outcome = "Ok"
    /\ result = OkUnit

(***************************************************************************)
(* The address of the bus calls, checked under SpecUsed.                   *)
(***************************************************************************)
\* C22: every bus write and every bus read the driver issues, in any
\* operation and after any sequence of operations, is addressed with the
\* same byte 0x61.
C22_OneAddress ==
    \A i \in 1..Len(bus) : bus[i].address = 97

C22_Witness ==
    /\ prior = {"ok", "failed", "abandoned"}
    /\ op.name = "read_measurement"
    /\ Len(bus) = 2
    /\ bus[1].call = "write" /\ bus[1].address = 97
    /\ bus[2].call = "read" /\ bus[2].address = 97
    /\ bus[2].outcome = "Ok"

(***************************************************************************)
(* SpecFloat: one TemperatureOffset from a float.  The caller holds a      *)
(* float that is an f32 and passes it to the f32 constructor and, widened  *)
(* to f64, to the f64 constructor; each value that results is serialized.  *)
(***************************************************************************)
MaxHundredths == 250

\* The f32 a decimal literal of d hundredths stands for (0.1f32 for d = 10):
\* the f32 nearest to d / 100, ties to the even m.  With k the power of two
\* that brings d * 2^k into 100 * 2^23 .. 100 * 2^24 - 1, m is the nearest
\* integer to d * 2^k / 100.
F32Literal(neg, d) ==
    IF d = 0 THEN Finite(neg, 0, 0)
    ELSE LET k == CHOOSE i \in 0..30 : d * Pow2(i) >= 100 * Pow2(23)
             q == (d * Pow2(k)) \div 100
             r == (d * Pow2(k)) % 100
             m == IF r > 50 \/ (r = 50 /\ q % 2 = 1) THEN q + 1 ELSE q
         IN  IF m = Pow2(24) THEN Finite(neg, Pow2(23), 1 - k)
             ELSE Finite(neg, m, 0 - k)

\* The floats the constructors are tried with: 0.00 to MaxHundredths / 100
\* in steps of 0.01; the values of the tests (5.0, 10.0, 6553.5, 6554.0,
\* -0.1); values around 655.35, where the hundredfold leaves u16; the two
\* f32 next to 6553.5; -0.0, a large and a small negative number, the
\* infinities and not-a-number.
FloatInputs ==
    {F32Literal(FALSE, d) : d \in 0..MaxHundredths}
        \cup {F32Literal(FALSE, d) :
                 d \in {500, 1000, 65535, 65536, 65537, 100000, 200000,
                        655350, 655351, 655400}}
        \cup {F32Literal(TRUE, d) : d \in {0, 10}}
        \cup {Finite(FALSE, (13107 * 1024) - 1, 0 - 11),
              Finite(FALSE, (13107 * 1024) + 1, 0 - 11),
              Finite(FALSE, Pow2(23), 100),
              Finite(TRUE, Pow2(23), 0 - 126),
              Infinity(FALSE), Infinity(TRUE), NaN}

InitFloat ==
    /\ f_in \in FloatInputs
    /\ f_res = [p \in {"f32", "f64"} |-> NoResult]
    /\ f_ser = [p \in {"f32", "f64"} |-> <<>>]
    /\ CrcIdle
    /\ DeserIdle
    /\ DriverIdle
    /\ ValueIdle

\* TemperatureOffset::try_from(offset) with offset: f32.
FromF32 ==
    /\ f_res["f32"] = NoResult
    /\ f_res' = [f_res EXCEPT !["f32"] = TemperatureOffset_try_from_f32(f_in)]
    /\ UNCHANGED <<f_in, f_ser>>
    /\ UNCHANGED <<crcVars, deserVars, driverVars, valueVars>>

\* TemperatureOffset::try_from(offset as f64).
FromF64 ==
    /\ f_res["f64"] = NoResult
    /\ f_res' = [f_res EXCEPT !["f64"] = TemperatureOffset_try_from_f64(f_in)]
    /\ UNCHANGED <<f_in, f_ser>>
    /\ UNCHANGED <<crcVars, deserVars, driverVars, valueVars>>

\* to_be_bytes of a value a constructor returned: what
\* set_temperature_offset hands to Scd30::write.
SerializeOffset ==
    /\ \E p \in {"f32", "f64"} :
           /\ f_res[p].ok
           /\ f_ser[p] = <<>>
           /\ f_ser' = [f_ser EXCEPT
                           ![p] = TemperatureOffset_to_be_bytes(f_res[p].val)]
    /\ UNCHANGED <<f_in, f_res>>
    /\ UNCHANGED <<crcVars, deserVars, driverVars, valueVars>>

NextFloat ==
    \/ FromF32
    \/ FromF64
    \/ SerializeOffset

SpecFloat == InitFloat /\ [][NextFloat]_vars

(***************************************************************************)
(* The float constructors' claims, checked under SpecFloat.                *)
(***************************************************************************)
\* 0.0 <= x <= 6553.5, with 6553.5 = 13107 * 2^-1 = 13421568 * 2^-11.
InRange(x) ==
    /\ x.cls = "finite"
    /\ \/ x.m = 0
       \/ /\ ~x.neg
          /\ x.e < 0 - 11 \/ (x.e = 0 - 11 /\ x.m <= 13421568)

\* The integer part of a number x >= 0 below 2^31.
IntegerPart(x) ==
    IF x.m = 0 THEN 0
    ELSE IF x.e >= 0 THEN x.m * Pow2(x.e)
    ELSE IF 0 - x.e >= 31 THEN 0
    ELSE x.m \div Pow2(0 - x.e)

\* offset * 100 as the constructor of precision p computes it.
Hundredfold(p, x) == IF p = "f32" THEN Mul100_f32(x) ELSE Mul100_f64(x)

\* What the constructor of precision p returns for x.
Constructed(p, x) ==
    IF p = "f32" THEN TemperatureOffset_try_from_f32(x)
    ELSE TemperatureOffset_try_from_f64(x)

\* x and y are more than 0.01 apart: the integer parts of their exact
\* hundredfolds are at least 2 apart.
ClearlyApart(x, y) ==
    LET a == IntegerPart(Mul100_f64(x))
        b == IntegerPart(Mul100_f64(y))
    IN  a - b >= 2 \/ b - a >= 2

\* C23 as stated: for every offset the constructor accepts (0.0 to 6553.5)
\* the stored and transmitted 16-bit number is the integer part of
\* offset * 100 (5.0 gives 500, 10.0 gives 1000): it fits in 16 bits without
\* loss, and two accepted offsets at least 0.01 apart give different stored
\* numbers.
C23_StoredIsHundredfold ==
    \A p \in {"f32", "f64"} :
        (f_res[p].ok /\ InRange(f_in)) =>
            LET stored == f_res[p].val.TemperatureOffset
            IN  /\ stored = IntegerPart(Hundredfold(p, f_in))
                /\ f_ser[p] # <<>> =>
                       ReadU16(f_ser[p][1], f_ser[p][2])
                           = IntegerPart(Hundredfold(p, f_in))
                /\ f_in = F32Literal(FALSE, 500) => stored = 500
                /\ f_in = F32Literal(FALSE, 1000) => stored = 1000
                /\ \A y \in {x \in FloatInputs : InRange(x)} :
                       (Constructed(p, y).ok /\ ClearlyApart(f_in, y)) =>
                           Constructed(p, y).val.TemperatureOffset # stored

\* C24 as stated: construction from a float checks the bound on the value
\* before scaling: it succeeds exactly when 0.0 <= offset <= 6553.5 and
\* otherwise fails with ValueOutOfRange naming "Temperature offset" with
\* min 0, max 65535 and unit degree Celsius, constructing no value.
C24_BoundCheckedBeforeScaling ==
    \A p \in {"f32", "f64"} :
        f_res[p] # NoResult =>
            /\ f_res[p].ok <=> InRange(f_in)
            /\ ~InRange(f_in) =>
                   f_res[p] = Err([kind |-> "ValueOutOfRange",
                                   parameter |-> "Temperature offset",
                                   min |-> 0, max |-> 65535, unit |-> "°C"])

\* C30 as stated: the f32 and the f64 constructor agree: for every input
\* representable in both, including negative values, values above 6553.5
\* and not-a-number, both fail with the same ValueOutOfRange error or both
\* succeed with the same stored 16-bit number.
C30_ConstructorsAgree ==
    (f_res["f32"] # NoResult /\ f_res["f64"] # NoResult) =>
        f_res["f32"] = f_res["f64"]

(***************************************************************************)
(* The precedence of the constructors' errors, checked under SpecDeser.    *)
(***************************************************************************)
\* C25: every buffer constructor runs the length-and-checksum check before
\* it looks at the content, so the errors have a fixed precedence.  For
\* AutomaticSelfCalibration and DataStatus a buffer of wrong length yields
\* ReceivedBufferWrongSize, a 3-byte buffer with a wrong checksum yields
\* CrcFailed even when its data value is outside {0,1}, and
\* UnexpectedValueReceived is returned only for a checksum-valid 3-byte
\* buffer.
C25_ErrorPrecedence ==
    d_pc = "decoded" =>
        /\ Len(d_buf) # ExpectedLen(d_ty) =>
               d_res = Err(ReceivedBufferWrongSize)
        /\ (/\ Len(d_buf) = ExpectedLen(d_ty)
            /\ \E w \in 1..(Len(d_buf) \div 3) : ~WordVerifies(d_buf, w)) =>
               d_res = Err(CrcFailed)
        /\ (~d_res.ok /\ d_res.err.kind = "UnexpectedValueReceived") =>
               /\ d_ty \in {"AutomaticSelfCalibration", "DataStatus"}
               /\ Len(d_buf) = 3
               /\ WordVerifies(d_buf, 1)
               /\ d_buf[2] \notin {0, 1}

C25_Witness ==
    /\ d_pc = "decoded"
    /\ d_ty = "AutomaticSelfCalibration"
    /\ Len(d_buf) = 3
    /\ d_buf[2] \notin {0, 1}
    /\ ~WordVerifies(d_buf, 1)
    /\ d_res = Err(CrcFailed)

(***************************************************************************)
(* Reading a parameter back, checked under Spec.                           *)
(***************************************************************************)
\* The five settable parameters: the operation that sets each, the one that
\* gets it, and the two opcode bytes both are to send.
Settable ==
    {[set |-> "set_measurement_interval",
      get |-> "get_measurement_interval", opcode |-> <<70, 0>>],
     [set |-> "set_automatic_self_calibration",
      get |-> "get_automatic_self_calibration", opcode |-> <<83, 6>>],
     [set |-> "set_forced_recalibration",
      get |-> "get_forced_recalibration", opcode |-> <<82, 4>>],
     [set |-> "set_temperature_offset",
      get |-> "get_temperature_offset", opcode |-> <<84, 3>>],
     [set |-> "set_altitude_compensation",
      get |-> "get_altitude_compensation", opcode |-> <<81, 2>>]}

\* C26: for each of the five settable parameters the get operation writes
\* the 2-byte frame whose opcode is the first two bytes of the frame the set
\* operation writes: reading back is the set command sent without argument.
C26_GetSendsSetOpcode ==
    \A par \in Settable :
        /\ op.name = par.set =>
               /\ Len(bus) >= 1 /\ bus[1].call = "write"
               /\ Len(bus[1].bytes) = 5
               /\ SubSeq(bus[1].bytes, 1, 2) = par.opcode
        /\ op.name = par.get =>
               /\ Len(bus) >= 1 /\ bus[1].call = "write"
               /\ bus[1].bytes = par.opcode

C26_Witness ==
    /\ Returned
    /\ op.name = "get_temperature_offset"
    /\ Len(bus) = 2
    /\ bus[1].bytes = <<84, 3>> /\ bus[1].outcome = "Ok"
    /\ bus[2].call = "read" /\ bus[2].outcome = "Ok"
    /\ result.ok

(***************************************************************************)
(* The high byte of a discrete value, checked under SpecValue.             *)
(***************************************************************************)
\* C27 as stated: decoding a checksum-valid 3-byte buffer as
\* AutomaticSelfCalibration or DataStatus succeeds only when the 16-bit
\* big-endian data word is exactly 0 or 1; a word with a non-zero high byte
\* (0x0100, 0x0101) is rejected with UnexpectedValueReceived, and the
\* reported `actual` is the received 16-bit word.
C27_WholeWordDecoded ==
    (/\ Built
     /\ v_in.from = "buffer"
     /\ v_ty \in {"AutomaticSelfCalibration", "DataStatus"}) =>
        /\ v_res.ok => v_in.n \in {0, 1}
        /\ v_in.n \notin {0, 1} =>
               /\ ~v_res.ok
               /\ v_res.err.kind = "UnexpectedValueReceived"
               /\ v_res.err.actual = v_in.n

(***************************************************************************)
(* The trace of bus calls, checked under SpecUsed.  `bus` holds the calls  *)
(* of the operation called last; the trace of a sequence of operations is  *)
(* these, one operation after the other, as long as no operation issues a  *)
(* call while another one waits in its own.                                *)
(***************************************************************************)
\* The shape of the calls of one operation.
CallsWellShaped ==
    \A i \in 1..Len(bus) :
        /\ bus[i].call = "write" => Len(bus[i].bytes) \in {2, 5}
        /\ bus[i].call = "read" =>
               /\ Len(bus[i].bytes) \in {3, 18}
               /\ i > 1
               /\ bus[i - 1].call = "write"
               /\ bus[i - 1].outcome = "Ok"
               /\ Len(bus[i - 1].bytes) = 2
               /\ Len(bus[i].bytes) = 18 => bus[i - 1].bytes = <<3, 0>>

\* A step that issues a bus call: either the operation that waited goes on
\* with its next call, directly after its own calls so far, or an operation
\* starts with its first call while no other operation waits in a call.
CallsInTurn ==
    (Len(bus') >= 1 /\ bus'[Len(bus')].outcome = "pending" /\ bus' # bus) =>
        \/ /\ pc = "idle"
           /\ Len(bus') = 1
           /\ bus'[1].call = "write"
        \/ /\ pc # "idle"
           /\ op' = op
           /\ Len(bus') = Len(bus) + 1
           /\ SubSeq(bus', 1, Len(bus) - 1) = SubSeq(bus, 1, Len(bus) - 1)
           /\ bus[Len(bus)].outcome = "pending"
           /\ bus'[Len(bus)] = [bus[Len(bus)] EXCEPT !.outcome = "Ok"]

\* C28: over any sequence of operations (successful, failed, or abandoned
\* between the write and the read) every bus read is immediately preceded
\* by a successful 2-byte bus write issued by the same operation; every bus
\* write has length 2 or 5; every bus read has length 3 or 18, and a read of
\* 18 bytes occurs only directly after the write of opcode 0x0300.  Bus
\* calls of two operations on one driver never interleave.
C28_TraceShape == [](CallsWellShaped) /\ [][CallsInTurn]_vars

C28_Witness ==
    /\ "abandoned" \in prior
    /\ Returned
    /\ op.name = "read_measurement"
    /\ Len(bus) = 2
    /\ bus[1].call = "write" /\ bus[1].bytes = <<3, 0>>
    /\ bus[1].outcome = "Ok"
    /\ bus[2].call = "read" /\ Len(bus[2].bytes) = 18
    /\ bus[2].outcome = "Ok"

(***************************************************************************)
(* SpecSetGet: a parameter is set and read back.  The caller constructs a  *)
(* value of a settable type (from a number, from a received buffer, or a   *)
(* variant), passes it to the set operation, and after that has succeeded  *)
(* calls the get operation; the sensor has kept the argument and its       *)
(* checksum as it received them and answers the read with these 3 bytes.   *)
(***************************************************************************)
\* The settable parameters: the type of value, the operations that set and
\* get it and the command both send.
SettableTypes ==
    {[ty |-> "MeasurementInterval", set |-> "set_measurement_interval",
      get |-> "get_measurement_interval",
      command |-> "SetMeasurementInterval"],
     [ty |-> "AutomaticSelfCalibration",
      set |-> "set_automatic_self_calibration",
      get |-> "get_automatic_self_calibration",
      command |-> "ActivateAutomaticSelfCalibration"],
     [ty |-> "ForcedRecalibrationValue", set |-> "set_forced_recalibration",
      get |-> "get_forced_recalibration",
      command |-> "ForcedRecalibrationValue"],
     [ty |-> "TemperatureOffset", set |-> "set_temperature_offset",
      get |-> "get_temperature_offset", command |-> "SetTemperatureOffset"],
     [ty |-> "AltitudeCompensation", set |-> "set_altitude_compensation",
      get |-> "get_altitude_compensation",
      command |-> "SetAltitudeCompensation"]}

InitSetGet ==
    /\ \/ /\ v_ty \in {"MeasurementInterval", "ForcedRecalibrationValue",
                        "AltitudeCompensation"}
          /\ v_in \in {[from |-> "number", n |-> n] : n \in WordSamples}
       \/ /\ v_ty \in {par.ty : par \in SettableTypes}
          /\ v_in \in {[from |-> "buffer", n |-> n] : n \in WordSamples}
       \/ /\ v_ty = "AutomaticSelfCalibration"
          /\ v_in \in {[from |-> "variant", n |-> n] : n \in {0, 1}}
    /\ v_res = NoResult
    /\ v_ser = <<>>
    /\ v_back = NoResult
    /\ v_pc = "input"
    /\ CrcIdle
    /\ DeserIdle
    /\ DriverIdle
    /\ FloatIdle

\* The set operation of the value's type, called with the value.
SetBuilt ==
    /\ pc = "idle"
    /\ op = NoOp
    /\ v_pc = "built"
    /\ v_res.ok
    /\ \E par \in SettableTypes :
           /\ par.ty = v_ty
           /\ LET bytes == ToBeBytes(v_ty, v_res.val)
              IN  Begin(par.set, par.command, ReadU16(bytes[1], bytes[2]),
                        Some(bytes))

\* The sensor keeps the argument of the frame it received, with its
\* checksum.
SensorStores ==
    /\ pc = "idle"
    /\ v_pc = "built"
    /\ op.name \in {par.set : par \in SettableTypes}
    /\ result = OkUnit
    /\ v_ser' = SubSeq(bus[1].bytes, 3, 5)
    /\ v_pc' = "serialized"
    /\ UNCHANGED <<v_ty, v_in, v_res, v_back>>
    /\ UNCHANGED <<crcVars, deserVars, driverVars, floatVars>>

\* The get operation of the parameter that was set.
GetStored ==
    /\ pc = "idle"
    /\ v_pc = "serialized"
    /\ \E par \in SettableTypes :
           /\ op.name = par.set
           /\ BeginRead(par.get, par.command)

\* i2c.read filled the buffer with what the sensor keeps: the constructor
\* of the operation's type decodes it.
BusReadsStored ==
    /\ pc = "read"
    /\ v_pc = "serialized"
    /\ bus' = [Answered("Ok") EXCEPT ![Len(bus)].bytes = v_ser]
    /\ result' = WrapDataError(TryFromBuffer(ResultType(op.name), v_ser))
    /\ pc' = "idle"
    /\ UNCHANGED <<op, prior>>
    /\ UNCHANGED <<crcVars, deserVars, valueVars, floatVars>>

NextSetGet ==
    \/ FromNumber
    \/ FromBuffer
    \/ FromVariant
    \/ SetBuilt
    \/ SensorStores
    \/ GetStored
    \/ BusWriteOk
    \/ BusWriteFails
    \/ BusReadsStored
    \/ BusReadFails
    \/ Abandon

SpecSetGet == InitSetGet /\ [][NextSetGet]_vars

\* C29: set-then-get agrees on the wire.  For each settable parameter and
\* every valid value v, bytes 2..4 of the 5-byte frame written by set(v)
\* form a checksum-valid Word, and when the bus returns exactly those 3
\* bytes to the following get operation, that get returns a value equal
\* to v.
C29_SetThenGet ==
    \A par \in SettableTypes :
        /\ (op.name = par.set /\ Len(bus) >= 1) =>
               LET f == bus[1].bytes
               IN  /\ Len(f) = 5
                   /\ f[5] = compute_crc8(<<f[3], f[4]>>)
                   /\ check_deserialization(SubSeq(f, 3, 5), 3) = OkUnit
        /\ (/\ op.name = par.get
            /\ Returned
            /\ Len(bus) = 2
            /\ bus[2].outcome = "Ok"
            /\ bus[2].bytes = v_ser) =>
               /\ par.ty = v_ty
               /\ result = Ok(v_res.val)

C29_Witness ==
    /\ v_ty = "TemperatureOffset"
    /\ op.name = "get_temperature_offset"
    /\ Returned
    /\ Len(bus) = 2
    /\ v_res = Ok([TemperatureOffset |-> 500])
    /\ v_ser = <<1, 244, 51>>
    /\ bus[1].bytes = <<84, 3>>
    /\ bus[2].bytes = <<1, 244, 51>> /\ bus[2].outcome = "Ok"
    /\ result = Ok([TemperatureOffset |-> 500])

====
